---- MODULE Spec2Model ----
(***************************************************************************)
(* A model of the carcassonne-ws server: the tile placement validator      *)
(* (internal/game tile.go), the Board (internal/game/board.go), the Room   *)
(* (internal/room/room.go), the room Manager and the websocket Hub's      *)
(* request handlers (internal/websocket).                                  *)
(*                                                                         *)
(* Go values are modelled as follows.  A *game.Player is a name in the     *)
(* heap `players` (the client's name for the object handleConnect makes,   *)
(* a "bot-.." name for the object NewBot makes), so a Player object that   *)
(* is shared by a Client, a Room and a Board is one heap cell.  The nil    *)
(* pointer is "nil", the empty room id is "".  A returned error is its     *)
(* message; "ok" is the nil error and "panic" is a Go runtime panic, which *)
(* ends the process (no handler recovers).  What a call returns is read    *)
(* off the operator that models it.  The messages the hub puts on the      *)
(* clients' outbound channels are followed in `send` where a specification *)
(* starts with send.on; elsewhere the peers are taken to read whatever     *)
(* they are sent at once, and a rejected request changes no variable.      *)
(***************************************************************************)
EXTENDS Integers, Sequences, FiniteSets, TLC

VARIABLES
    rooms,      \* Manager.rooms: room id -> Room (with its Board)
    created,    \* how many rooms NewRoom has made (uuid.New() never repeats)
    players,    \* the heap of *game.Player objects: name -> Player
    clients,    \* the websocket Clients: name -> [conn, Player, RoomID]
    pend,       \* per goroutine: the room whose lock it takes next for NextTurn
    leaving,    \* per goroutine: the room Manager.LeaveRoom is about to delete
    crashed,    \* a handler panicked: the process is gone
    pure,       \* input and output of the pure function under check
    send        \* the clients' outbound channels (Client.send)

vars == <<rooms, created, players, clients, pend, leaving, crashed, pure, send>>

-----------------------------------------------------------------------------
(* Bounds of the model.                                                    *)

\* How many messages a client's outbound channel holds (256 in NewClient).
SendBuffer == 2

\* How many tiles of the shuffled draw pile a board starts with (20 in the
\* program: the 21 tiles of the set less the tile seeded at the origin).
MaxDeck == 1

\* The websocket connections.
Clients == {"c1", "c2", "c3"}

\* The bot goroutine started by Hub.Run.
BotTicker == "botTicker"

Goroutines == Clients \cup {BotTicker}

\* The goroutine of Hub.Run's loop, and the one an api request runs in.
HubLoop == "hub"

ApiCaller == "api"

\* The goroutines that call Client.SendMessage.
Senders == Goroutines \cup {HubLoop, ApiCaller}

\* The room ids uuid.New() hands out, in order.
RoomUUIDs == <<"r1", "r2", "r3">>

-----------------------------------------------------------------------------
(* internal/game tile.go                                                   *)

Road == "Road"
City == "City"
Field == "Field"

North == 0
East == 1
South == 2
West == 3

RoadFeature == "RoadFeature"
CityFeature == "CityFeature"
MonasteryFeature == "MonasteryFeature"
FieldFeature == "FieldFeature"

\* PlacedTile.Rotation as its comment wants it: 0, 90, 180, 270 degrees.
QuarterTurns == {0, 90, 180, 270}

\* Go's integer division truncates toward zero and % takes the dividend's sign.
GoDiv(a, b) == IF a >= 0 THEN a \div b ELSE -((-a) \div b)

GoMod(a, b) == a - b * GoDiv(a, b)

\* Tile.Rotate: one quarter turn clockwise.
Rotate(t) == [t EXCEPT !.North = t.West, !.East = t.North,
                       !.South = t.East, !.West = t.South]

\* The edge of a tile definition at a direction index (the switch of GetEdge).
EdgeOf(t, d) ==
    CASE d = North -> t.North
      [] d = East  -> t.East
      [] d = South -> t.South
      [] d = West  -> t.West
      [] OTHER     -> Field

\* PlacedTile.GetEdge with the rotation added to the direction index.
GetEdgeAnticlockwise(pt, dir) ==
    LET rotatedDir == GoMod(dir + GoDiv(pt.Rotation, 90) + 4, 4)
    IN  EdgeOf(pt.Tile, rotatedDir)

\* PlacedTile.GetEdge
GetEdge(pt, dir) ==
    LET rotatedDir == GoMod(dir - GoDiv(pt.Rotation, 90) + 4, 4)
    IN  EdgeOf(pt.Tile, rotatedDir)

\* The four neighbours CanPlaceAt looks at: position, direction, opposite.
AdjacentPositions(pos) ==
    { [pos |-> <<pos[1], pos[2] - 1>>, dir |-> North, opposite |-> South],
      [pos |-> <<pos[1] + 1, pos[2]>>, dir |-> East,  opposite |-> West],
      [pos |-> <<pos[1], pos[2] + 1>>, dir |-> South, opposite |-> North],
      [pos |-> <<pos[1] - 1, pos[2]>>, dir |-> West,  opposite |-> East] }

\* CanPlaceAt with the hasAdjacent requirement dropped.
CanPlaceAtFloating(pt, board, pos) ==
    /\ pos \notin DOMAIN board
    /\ \A adj \in AdjacentPositions(pos) :
          adj.pos \in DOMAIN board =>
              GetEdge(pt, adj.dir) = GetEdge(board[adj.pos], adj.opposite)

\* PlacedTile.CanPlaceAt
CanPlaceAt(pt, board, pos) ==
    /\ pos \notin DOMAIN board
    /\ \E adj \in AdjacentPositions(pos) : adj.pos \in DOMAIN board
    /\ \A adj \in AdjacentPositions(pos) :
          adj.pos \in DOMAIN board =>
              GetEdge(pt, adj.dir) = GetEdge(board[adj.pos], adj.opposite)

\* CreateStandardTileSet: tiles[0..20].
CreateStandardTileSet ==
    [i \in 0..20 |->
        IF i = 0 THEN
            [ID |-> i, North |-> Field, East |-> Road, South |-> Road, West |-> Field,
             HasMonastery |-> TRUE, Features |-> <<MonasteryFeature, RoadFeature>>]
        ELSE IF i <= 8 THEN
            [ID |-> i, North |-> Field, East |-> Road, South |-> Field, West |-> Road,
             HasMonastery |-> FALSE, Features |-> <<RoadFeature, FieldFeature>>]
        ELSE IF i <= 16 THEN
            [ID |-> i, North |-> City, East |-> Field, South |-> Field, West |-> Field,
             HasMonastery |-> FALSE, Features |-> <<CityFeature, FieldFeature>>]
        ELSE
            [ID |-> i, North |-> Field, East |-> Field, South |-> Field, West |-> Field,
             HasMonastery |-> TRUE, Features |-> <<MonasteryFeature, FieldFeature>>]]

-----------------------------------------------------------------------------
(* internal/game/board.go                                                  *)

\* A *Tile field is the empty sequence (nil) or the one-element sequence
\* holding the tile.
NilTile == <<>>

\* &game.Player{...}: the fields the handlers read and write.
Player(id, color, isBot) == [ID |-> id, Color |-> color, Meeples |-> 7, IsBot |-> isBot]

\* &PlacedTile{Tile, Position, Rotation, Meeples: empty}
PlacedTile(tile, pos, rotation) ==
    [Tile |-> tile, Position |-> pos, Rotation |-> rotation, Meeples |-> <<>>]

\* NewBoard; `shuffled` is the tile sequence as the shuffle loop left it.
NewBoard(shuffled) ==
    [Tiles         |-> (<<0, 0>> :> PlacedTile(shuffled[1], <<0, 0>>, 0)),
     TileDeck      |-> Tail(shuffled),
     CurrentTile   |-> NilTile,
     Players       |-> <<>>,
     CurrentPlayer |-> 0,
     GameStarted   |-> FALSE,
     GameEnded     |-> FALSE]

\* Board.AddPlayer; p names the *Player.
BoardAddPlayer(b, pls, p) ==
    IF Len(b.Players) >= 5
    THEN [err |-> "maximum 5 players allowed", Board |-> b, players |-> pls]
    ELSE IF b.GameStarted
    THEN [err |-> "game already started", Board |-> b, players |-> pls]
    ELSE [err |-> "ok",
          Board |-> [b EXCEPT !.Players = Append(@, p)],
          players |-> [pls EXCEPT ![p].Meeples = 7]]

\* Board.DrawNextTile
DrawNextTile(b) ==
    IF Len(b.TileDeck) = 0
    THEN [ok |-> FALSE, Board |-> [b EXCEPT !.GameEnded = TRUE]]
    ELSE [ok |-> TRUE,
          Board |-> [b EXCEPT !.CurrentTile = <<Head(b.TileDeck)>>,
                              !.TileDeck = Tail(b.TileDeck)]]

\* Board.StartGame
BoardStartGame(b) ==
    IF Len(b.Players) < 2
    THEN [err |-> "need at least 2 players to start", Board |-> b]
    ELSE IF b.GameStarted
    THEN [err |-> "game already started", Board |-> b]
    ELSE [err |-> "ok",
          Board |-> DrawNextTile([b EXCEPT !.GameStarted = TRUE,
                                           !.CurrentPlayer = 0]).Board]

\* Board.getPossiblePositions: the empty cells next to a placed tile.
getPossiblePositions(b) ==
    { adj.pos : adj \in UNION { AdjacentPositions(pos) : pos \in DOMAIN b.Tiles } }
        \ DOMAIN b.Tiles

\* Board.GetValidPlacements, as the set of its elements.
GetValidPlacements(b) ==
    IF b.CurrentTile = NilTile THEN {}
    ELSE { o \in [Position : getPossiblePositions(b), Rotation : {0, 90, 180, 270}] :
             CanPlaceAt(PlacedTile(b.CurrentTile[1], o.Position, o.Rotation),
                        b.Tiles, o.Position) }

\* Board.PlaceTile
BoardPlaceTile(b, pos, rotation) ==
    IF b.CurrentTile = NilTile
    THEN [err |-> "no current tile to place", Board |-> b]
    ELSE LET placedTile == PlacedTile(b.CurrentTile[1], pos, rotation)
         IN  IF ~CanPlaceAt(placedTile, b.Tiles, pos)
             THEN [err |-> "invalid tile placement", Board |-> b]
             ELSE [err |-> "ok",
                   Board |-> [b EXCEPT !.Tiles = (pos :> placedTile) @@ @,
                                       !.CurrentTile = NilTile]]

\* Board.GetPlayer: the first player of the list with that ID, or nil.
GetPlayer(b, pls, playerID) ==
    LET hits == { i \in 1..Len(b.Players) : pls[b.Players[i]].ID = playerID }
    IN  IF hits = {} THEN "nil"
        ELSE b.Players[CHOOSE i \in hits : \A j \in hits : i <= j]

\* The tiles the range loop of PlaceMeeple can stop at: Go ranges over a map
\* in an unspecified order, so any tile without a meeple can be the first.
MeeplelessTiles(b) == { pos \in DOMAIN b.Tiles : Len(b.Tiles[pos].Meeples) = 0 }

\* Board.PlaceMeeple; `pick` is the tile the range loop stopped at
\* (any element of MeeplelessTiles, irrelevant when there is none).
BoardPlaceMeeple(b, pls, playerID, featureID, pick) ==
    LET player == GetPlayer(b, pls, playerID)
        fail(msg) == [err |-> msg, Board |-> b, players |-> pls]
    IN  IF player = "nil" THEN fail("player not found")
        ELSE IF pls[player].Meeples <= 0 THEN fail("no meeples available")
        ELSE IF MeeplelessTiles(b) = {} THEN fail("no tile to place meeple on")
        ELSE IF featureID >= Len(b.Tiles[pick].Tile.Features)
        THEN fail("invalid feature ID")
        ELSE IF \E i \in 1..Len(b.Tiles[pick].Meeples) :
                    b.Tiles[pick].Meeples[i].FeatureID = featureID
        THEN fail("feature already occupied")
        ELSE [err |-> "ok",
              Board |-> [b EXCEPT !.Tiles[pick].Meeples =
                            Append(@, [PlayerID |-> playerID, FeatureID |-> featureID,
                                       Color |-> pls[player].Color])],
              players |-> [pls EXCEPT ![player].Meeples = @ - 1]]

\* Board.EndGame (the scores it copies are not modelled).
EndGame(b) == [b EXCEPT !.GameEnded = TRUE]

\* Board.NextTurn; with no player the modulo panics (integer divide by zero).
BoardNextTurn(b) ==
    IF Len(b.Players) = 0 THEN [panic |-> TRUE, Board |-> b]
    ELSE LET drawn == DrawNextTile(
                 [b EXCEPT !.CurrentPlayer = (b.CurrentPlayer + 1) % Len(b.Players)])
         IN  [panic |-> FALSE,
              Board |-> IF drawn.ok THEN drawn.Board ELSE EndGame(drawn.Board)]

\* Board.GetCurrentPlayer indexes Players[CurrentPlayer] unchecked once the
\* list is not empty: an index past the end is a runtime panic.
GetCurrentPlayerPanics(b) ==
    Len(b.Players) # 0 /\ b.CurrentPlayer >= Len(b.Players)

\* Board.GetCurrentPlayer (where it does not panic).
GetCurrentPlayer(b) ==
    IF Len(b.Players) = 0 THEN "nil" ELSE b.Players[b.CurrentPlayer + 1]

-----------------------------------------------------------------------------
(* internal/room/room.go                                                   *)

\* A Go map with no entry.
EmptyMap == <<>>

\* delete(m, k)
MapDelete(m, k) == [x \in DOMAIN m \ {k} |-> m[x]]

\* The palette AddBot picks a bot's color from, in order.
BotColors == <<"red", "blue", "green", "yellow", "black">>

\* NewRoom; id is the uuid it draws, shuffled the outcome of NewBoard's shuffle.
NewRoom(id, createdBy, maxPlayers, shuffled) ==
    [ID          |-> id,
     MaxPlayers  |-> IF maxPlayers < 2 \/ maxPlayers > 5 THEN 5 ELSE maxPlayers,
     CreatedBy   |-> createdBy,
     Players     |-> EmptyMap,
     Bots        |-> EmptyMap,
     Board       |-> NewBoard(shuffled),
     GameStarted |-> FALSE,
     GameEnded   |-> FALSE]

\* len(r.Players) + len(r.Bots)
GetPlayerCount(r) == Cardinality(DOMAIN r.Players) + Cardinality(DOMAIN r.Bots)

\* The *Player objects of a room's members, humans and bots.
Members(r) ==
    { r.Players[id] : id \in DOMAIN r.Players } \cup
    { r.Bots[id].Player : id \in DOMAIN r.Bots }

\* Room.AddPlayer without the GameStarted check.
RoomAddPlayerAfterStart(r, pls, p) ==
    IF GetPlayerCount(r) >= r.MaxPlayers
    THEN [err |-> "room is full", Room |-> r, players |-> pls]
    ELSE IF pls[p].ID \in DOMAIN r.Players
    THEN [err |-> "player already in room", Room |-> r, players |-> pls]
    ELSE LET added == BoardAddPlayer(r.Board, pls, p)
         IN  [err |-> "ok",
              Room |-> [r EXCEPT !.Players = (pls[p].ID :> p) @@ @,
                                 !.Board = added.Board],
              players |-> added.players]

\* Room.AddPlayer without the "player already in room" check.
RoomAddPlayerAgain(r, pls, p) ==
    IF r.GameStarted
    THEN [err |-> "game already started", Room |-> r, players |-> pls]
    ELSE IF GetPlayerCount(r) >= r.MaxPlayers
    THEN [err |-> "room is full", Room |-> r, players |-> pls]
    ELSE LET added == BoardAddPlayer(r.Board, pls, p)
         IN  [err |-> "ok",
              Room |-> [r EXCEPT !.Players = (pls[p].ID :> p) @@ @,
                                 !.Board = added.Board],
              players |-> added.players]

\* Room.AddPlayer; the error of Board.AddPlayer is dropped.
RoomAddPlayer(r, pls, p) ==
    IF r.GameStarted
    THEN [err |-> "game already started", Room |-> r, players |-> pls]
    ELSE IF GetPlayerCount(r) >= r.MaxPlayers
    THEN [err |-> "room is full", Room |-> r, players |-> pls]
    ELSE IF pls[p].ID \in DOMAIN r.Players
    THEN [err |-> "player already in room", Room |-> r, players |-> pls]
    ELSE LET added == BoardAddPlayer(r.Board, pls, p)
         IN  [err |-> "ok",
              Room |-> [r EXCEPT !.Players = (pls[p].ID :> p) @@ @,
                                 !.Board = added.Board],
              players |-> added.players]

\* The loop of RemovePlayer: drop the first board player with that ID.
RemoveFirstWithID(seq, pls, playerID) ==
    LET hits == { i \in 1..Len(seq) : pls[seq[i]].ID = playerID }
    IN  IF hits = {} THEN seq
        ELSE LET i == CHOOSE k \in hits : \A j \in hits : k <= j
             IN  SubSeq(seq, 1, i - 1) \o SubSeq(seq, i + 1, Len(seq))

\* Room.RemovePlayer
RoomRemovePlayer(r, pls, playerID) ==
    IF r.GameStarted
    THEN [err |-> "cannot leave during game", Room |-> r]
    ELSE IF playerID \notin DOMAIN r.Players
    THEN [err |-> "player not in room", Room |-> r]
    ELSE [err |-> "ok",
          Room |-> [r EXCEPT !.Players = MapDelete(@, playerID),
                             !.Board.Players = RemoveFirstWithID(@, pls, playerID)]]

\* The colors AddBot finds in use.
usedColors(r, pls) ==
    { pls[r.Players[id]].Color : id \in DOMAIN r.Players }
        \cup { pls[r.Bots[id].Player].Color : id \in DOMAIN r.Bots }

\* The first unused color of the palette, "" when every one is used.
botColor(r, pls) ==
    LET free == { i \in 1..Len(BotColors) : BotColors[i] \notin usedColors(r, pls) }
    IN  IF free = {} THEN ""
        ELSE BotColors[CHOOSE i \in free : \A j \in free : i <= j]

\* Room.AddBot without the creator check.
RoomAddBotByAnyone(r, pls, botID, difficulty, creatorID) ==
    LET fail(msg) == [err |-> msg, Room |-> r, players |-> pls]
    IN  IF r.GameStarted THEN fail("game already started")
        ELSE IF GetPlayerCount(r) >= r.MaxPlayers THEN fail("room is full")
        ELSE IF botColor(r, pls) = "" THEN fail("no available colors for bot")
        ELSE LET heap  == (botID :> Player(botID, botColor(r, pls), TRUE)) @@ pls
                 added == BoardAddPlayer(r.Board, heap, botID)
             IN  [err |-> "ok",
                  Room |-> [r EXCEPT
                             !.Bots = (botID :> [Player |-> botID,
                                                 Difficulty |-> difficulty]) @@ @,
                             !.Board = added.Board],
                  players |-> added.players]

\* Room.AddBot without the capacity check.
RoomAddBotNoCapacity(r, pls, botID, difficulty, creatorID) ==
    LET fail(msg) == [err |-> msg, Room |-> r, players |-> pls]
    IN  IF r.GameStarted THEN fail("game already started")
        ELSE IF r.CreatedBy # creatorID THEN fail("only room creator can add bots")
        ELSE IF botColor(r, pls) = "" THEN fail("no available colors for bot")
        ELSE LET heap  == (botID :> Player(botID, botColor(r, pls), TRUE)) @@ pls
                 added == BoardAddPlayer(r.Board, heap, botID)
             IN  [err |-> "ok",
                  Room |-> [r EXCEPT
                             !.Bots = (botID :> [Player |-> botID,
                                                 Difficulty |-> difficulty]) @@ @,
                             !.Board = added.Board],
                  players |-> added.players]

\* Room.AddBot; botID is the uuid it draws; NewBot makes the Player object
\* and SetDifficulty stores whatever string it is given.
RoomAddBot(r, pls, botID, difficulty, creatorID) ==
    LET fail(msg) == [err |-> msg, Room |-> r, players |-> pls]
    IN  IF r.GameStarted THEN fail("game already started")
        ELSE IF r.CreatedBy # creatorID THEN fail("only room creator can add bots")
        ELSE IF GetPlayerCount(r) >= r.MaxPlayers THEN fail("room is full")
        ELSE IF botColor(r, pls) = "" THEN fail("no available colors for bot")
        ELSE LET heap  == (botID :> Player(botID, botColor(r, pls), TRUE)) @@ pls
                 added == BoardAddPlayer(r.Board, heap, botID)
             IN  [err |-> "ok",
                  Room |-> [r EXCEPT
                             !.Bots = (botID :> [Player |-> botID,
                                                 Difficulty |-> difficulty]) @@ @,
                             !.Board = added.Board],
                  players |-> added.players]

\* Room.StartGame
RoomStartGame(r) ==
    IF r.GameStarted THEN [err |-> "game already started", Room |-> r]
    ELSE IF GetPlayerCount(r) < 2
    THEN [err |-> "need at least 2 players to start", Room |-> r]
    ELSE LET started == BoardStartGame(r.Board)
         IN  IF started.err # "ok" THEN [err |-> started.err, Room |-> r]
             ELSE [err |-> "ok",
                   Room |-> [r EXCEPT !.Board = started.Board, !.GameStarted = TRUE]]

\* Room.IsCreator
IsCreator(r, playerID) == r.CreatedBy = playerID

\* Room.CanStart
CanStart(r) == ~r.GameStarted /\ GetPlayerCount(r) >= 2

\* Room.IsCurrentPlayerBot (where GetCurrentPlayer does not panic).
IsCurrentPlayerBot(r, pls) ==
    /\ GetCurrentPlayer(r.Board) # "nil"
    /\ pls[GetCurrentPlayer(r.Board)].ID \in DOMAIN r.Bots

\* Room.PlaceTile
RoomPlaceTile(r, pls, playerID, pos, rotation) ==
    IF GetCurrentPlayerPanics(r.Board) THEN [err |-> "panic", Room |-> r]
    ELSE IF \/ GetCurrentPlayer(r.Board) = "nil"
            \/ pls[GetCurrentPlayer(r.Board)].ID # playerID
    THEN [err |-> "not your turn", Room |-> r]
    ELSE LET placed == BoardPlaceTile(r.Board, pos, rotation)
         IN  [err |-> placed.err, Room |-> [r EXCEPT !.Board = placed.Board]]

\* Room.PlaceMeeple
RoomPlaceMeeple(r, pls, playerID, featureID, pick) ==
    IF GetCurrentPlayerPanics(r.Board)
    THEN [err |-> "panic", Room |-> r, players |-> pls]
    ELSE IF \/ GetCurrentPlayer(r.Board) = "nil"
            \/ pls[GetCurrentPlayer(r.Board)].ID # playerID
    THEN [err |-> "not your turn", Room |-> r, players |-> pls]
    ELSE LET placed == BoardPlaceMeeple(r.Board, pls, playerID, featureID, pick)
         IN  [err |-> placed.err,
              Room |-> [r EXCEPT !.Board = placed.Board],
              players |-> placed.players]

\* Room.NextTurn without the copy of the board's GameEnded to the room.
RoomNextTurnBoardOnly(r) ==
    LET turned == BoardNextTurn(r.Board)
    IN  IF turned.panic THEN [panic |-> TRUE, Room |-> r]
        ELSE [panic |-> FALSE, Room |-> [r EXCEPT !.Board = turned.Board]]

\* Room.NextTurn
RoomNextTurn(r) ==
    LET turned == BoardNextTurn(r.Board)
    IN  IF turned.panic THEN [panic |-> TRUE, Room |-> r]
        ELSE [panic |-> FALSE,
              Room |-> [r EXCEPT !.Board = turned.Board,
                                 !.GameEnded = IF turned.Board.GameEnded THEN TRUE ELSE @]]

-----------------------------------------------------------------------------
(* What the environment sends: the requests' payloads and the outcomes of  *)
(* the random draws.  Each specification below draws them from its own     *)
(* small sets, given as a record:                                          *)
(*   Clients      the connections that are opened                          *)
(*   PlayerIDs    ConnectData.PlayerID, per connection                     *)
(*   Starters     the player ids the api's start request is made with      *)
(*   Closers      the connections whose peer goes away                     *)
(*   Colors       ConnectData.Color, per connection                        *)
(*   MaxPlayers   CreateRoomData.MaxPlayers                                *)
(*   Rooms        how many CREATE_ROOM requests are followed               *)
(*   Orders       the outcomes of NewBoard's shuffle, as tile IDs          *)
(*   Pile         how many tiles of the draw pile are followed             *)
(*   Difficulties AddBotData.Difficulty                                    *)
(*   Rotations    PlaceTileData.Rotation                                   *)
(*   Features     PlaceMeepleData.FeatureID                                *)
(*   BotRotations the rotations of the placements a bot's rand picks       *)
(*   BotFeatures  the feature a bot's rand picks (-1: no meeple)           *)

\* A cell no game of up to MaxDeck + 1 drawn tiles gets next to.
FarPosition == <<MaxDeck + 2, MaxDeck + 2>>

\* PlaceTileData.Position: every cell next to a placed tile, the origin
\* (occupied) and a cell next to nothing.  Every other cell is rejected as
\* FarPosition is.
PositionInputs(b) == getPossiblePositions(b) \cup {<<0, 0>>, FarPosition}

\* The tiles of a shuffle outcome that are followed: the first, seeded at
\* the origin, and the first `pile` tiles of the draw pile after it.
Shuffles(orders, pile) ==
    { [i \in 1..(pile + 1) |-> CreateStandardTileSet[o[i]]] : o \in orders }

\* The uuid AddBot draws for the n-th bot of a room.
BotUUID(roomID, n) == "bot-" \o roomID \o "-" \o ToString(n)

-----------------------------------------------------------------------------
(* room manager (Manager) and internal/websocket hub                       *)

\* Manager.GetRoom
RoomExists(roomID) == roomID \in DOMAIN rooms

\* Manager.LeaveRoom on the directory rms.  RemovePlayer, the count and the
\* delete take their locks one after the other; they are one step here.
LeaveRoom(rms, pls, roomID, playerID) ==
    IF roomID \notin DOMAIN rms THEN [err |-> "room not found", rooms |-> rms]
    ELSE LET removed == RoomRemovePlayer(rms[roomID], pls, playerID)
         IN  IF removed.err # "ok" THEN [err |-> removed.err, rooms |-> rms]
             ELSE IF GetPlayerCount(removed.Room) = 0 /\ ~removed.Room.GameStarted
             THEN [err |-> "ok", rooms |-> MapDelete(rms, roomID)]
             ELSE [err |-> "ok", rooms |-> [rms EXCEPT ![roomID] = removed.Room]]

\* The outbound channels before any message: `on` says whether they are
\* followed, queue[c] is what c.send holds, closed[c] that it was closed,
\* panicked that a send on, or a close of, a closed channel ended the
\* process.  `stepwise` says whether the loop of broadcastToRoom is followed
\* one SendMessage at a time; issued[g] then holds, in order, the messages
\* goroutine g has made and the connections it has still to send each to.
Channels(on) ==
    [on       |-> on,
     stepwise |-> FALSE,
     queue    |-> [c \in Clients |-> <<>>],
     closed   |-> [c \in Clients |-> FALSE],
     panicked |-> FALSE,
     issued   |-> [g \in Senders |-> <<>>]]

\* The process is gone.
Down == crashed \/ send.panicked

\* Client.SendMessage of c: the message is queued where c.send has room; a
\* full channel is closed instead (the default case of the select); a send
\* on a closed channel panics.
SendMessage(snd, c, msg) ==
    IF snd.closed[c] THEN [snd EXCEPT !.panicked = TRUE]
    ELSE IF Len(snd.queue[c]) >= SendBuffer THEN [snd EXCEPT !.closed[c] = TRUE]
    ELSE [snd EXCEPT !.queue[c] = Append(@, msg)]

\* c.SendMessage(msg) for each c of targets, by goroutine g.  Followed
\* stepwise, the message and its targets are noted for g and the sends are
\* the steps SendNext.
Deliver(snd, g, targets, msg) ==
    IF ~snd.on \/ targets = {} THEN snd
    ELSE IF snd.stepwise
    THEN [snd EXCEPT !.issued[g] =
                        Append(@, [msg |-> msg, room |-> "", left |-> targets])]
    ELSE [snd EXCEPT
            !.queue    = [c \in Clients |->
                            IF c \in targets THEN SendMessage(snd, c, msg).queue[c]
                            ELSE snd.queue[c]],
            !.closed   = [c \in Clients |->
                            IF c \in targets THEN SendMessage(snd, c, msg).closed[c]
                            ELSE snd.closed[c]],
            !.panicked = snd.panicked \/ \E c \in targets : snd.closed[c]]

\* NewErrorMessage
ErrorMessage(code) == [Type |-> "ERROR", Code |-> code]

\* Client.SendError
SendError(snd, c, code) == Deliver(snd, c, {c}, ErrorMessage(code))

\* The clients of h.clients with that RoomID, as broadcastToRoom finds them.
Attached(cls, roomID) ==
    { c \in Clients : cls[c].conn = "open" /\ cls[c].RoomID = roomID }

\* Hub.broadcastToRoom, run by goroutine g.  Followed stepwise, the range
\* loop passes the clients with another RoomID first and tests each of the
\* others again when its turn comes (room says which RoomID to test for).
broadcastToRoom(snd, g, cls, roomID, msg) ==
    IF snd.on /\ snd.stepwise /\ Attached(cls, roomID) # {}
    THEN [snd EXCEPT !.issued[g] =
                        Append(@, [msg |-> msg, room |-> roomID,
                                   left |-> Attached(cls, roomID)])]
    ELSE Deliver(snd, g, Attached(cls, roomID), msg)

\* Hub.handleListRooms: the room list goes to the client (its entries are
\* not followed).
ListRooms(snd, c) == Deliver(snd, c, {c}, [Type |-> "LIST_ROOMS"])

\* NewRoomStateMessage with room.GetPlayers(), the players as the set of the
\* slice's elements.
RoomStateMessage(r) ==
    [Type |-> "ROOM_STATE", RoomID |-> r.ID, Players |-> Members(r),
     GameStarted |-> r.GameStarted, GameEnded |-> r.GameEnded]

\* Hub.broadcastRoomState, run by goroutine g.
broadcastRoomState(snd, g, rms, cls, roomID) ==
    IF roomID \notin DOMAIN rms THEN snd
    ELSE broadcastToRoom(snd, g, cls, roomID, RoomStateMessage(rms[roomID]))

\* NewGameStateMessage: CreateMessage hands GameStateData to json.Marshal,
\* which returns an UnsupportedTypeError for GameState.Tiles, a map keyed
\* by the struct Position (encoding/json takes string and integer keys and
\* keys with MarshalText only).  No message is made for any game state.
NewGameStateMessage(b) ==
    [err |-> "json: unsupported type: map[game.Position]*game.PlacedTile"]

\* Hub.broadcastGameState, run by goroutine g: on the error it logs and
\* returns.
broadcastGameState(snd, g, rms, cls, roomID) ==
    IF roomID \notin DOMAIN rms THEN snd
    ELSE IF NewGameStateMessage(rms[roomID].Board).err # "ok" THEN snd
    ELSE broadcastToRoom(snd, g, cls, roomID, [Type |-> "GAME_STATE"])

\* NewTurnStartMessage; the placements are kept as the set of the slice's
\* elements.
TurnStartMessage(b, pls) ==
    [Type            |-> "TURN_START",
     CurrentPlayer   |-> pls[GetCurrentPlayer(b)].ID,
     CurrentTile     |-> b.CurrentTile,
     ValidPlacements |-> GetValidPlacements(b)]

\* Hub.sendTurnStart, run by goroutine g.
sendTurnStart(snd, g, rms, pls, cls, roomID) ==
    IF ~snd.on \/ roomID \notin DOMAIN rms THEN snd
    ELSE IF GetCurrentPlayerPanics(rms[roomID].Board)
    THEN [snd EXCEPT !.panicked = TRUE]
    ELSE IF GetCurrentPlayer(rms[roomID].Board) = "nil" THEN snd
    ELSE broadcastToRoom(snd, g, cls, roomID, TurnStartMessage(rms[roomID].Board, pls))

\* Goroutine g has made every send of the broadcasts it began.
Sent(g) == send.issued[g] = <<>>

\* The goroutine of client c is in readPump's loop, between two messages.
Reading(c) ==
    ~Down /\ clients[c].conn = "open" /\ pend[c] = "" /\ leaving[c] = "" /\ Sent(c)

Init ==
    /\ rooms = EmptyMap
    /\ created = 0
    /\ players = EmptyMap
    /\ clients = [c \in Clients |-> [conn |-> "new", Player |-> "nil", RoomID |-> ""]]
    /\ pend = [g \in Goroutines |-> ""]
    /\ leaving = [g \in Goroutines |-> ""]
    /\ crashed = FALSE
    /\ pure = "none"
    /\ send = Channels(FALSE)

\* ServeWS: the connection is upgraded and registered, its pumps start.
ServeWS(c) ==
    /\ ~Down
    /\ Sent(HubLoop)
    /\ clients[c].conn = "new"
    /\ clients' = [clients EXCEPT ![c].conn = "open"]
    /\ UNCHANGED <<rooms, created, players, pend, crashed, leaving, pure, send>>

\* Hub.handleConnect (a client is followed through one CONNECT).
handleConnect(c, id, color) ==
    /\ Reading(c)
    /\ clients[c].Player = "nil"
    /\ players' = (c :> Player(id, color, FALSE)) @@ players
    /\ clients' = [clients EXCEPT ![c].Player = c]
    /\ send' = ListRooms(send, c)
    /\ UNCHANGED <<rooms, created, pend, crashed, leaving, pure>>

\* Hub.handleCreateRoom (Manager.CreateRoom, then Room.AddPlayer).
handleCreateRoom(c, maxPlayers, shuffled) ==
    /\ Reading(c)
    /\ IF clients[c].Player = "nil"
       THEN /\ send' = SendError(send, c, "NOT_CONNECTED")
            /\ UNCHANGED <<rooms, created, players, clients>>
       ELSE LET id    == RoomUUIDs[created + 1]
                room  == NewRoom(id, players[clients[c].Player].ID, maxPlayers, shuffled)
                added == RoomAddPlayer(room, players, clients[c].Player)
            IN  /\ rooms' = (id :> added.Room) @@ rooms
                /\ created' = created + 1
                /\ players' = added.players
                /\ clients' = IF added.err = "ok"
                              THEN [clients EXCEPT ![c].RoomID = id] ELSE clients
                /\ send' = IF added.err = "ok"
                           THEN Deliver(send, c, {c}, RoomStateMessage(added.Room))
                           ELSE SendError(send, c, "JOIN_FAILED")
    /\ UNCHANGED <<pend, crashed, leaving, pure>>

\* Hub.handleJoinRoom (Manager.JoinRoom: GetRoom and Room.AddPlayer, one
\* step here).
handleJoinRoom(c, roomID) ==
    /\ Reading(c)
    /\ IF clients[c].Player = "nil"
       THEN /\ send' = SendError(send, c, "NOT_CONNECTED")
            /\ UNCHANGED <<rooms, players, clients>>
       ELSE IF ~RoomExists(roomID)
       THEN /\ send' = SendError(send, c, "JOIN_FAILED")
            /\ UNCHANGED <<rooms, players, clients>>
       ELSE LET added == RoomAddPlayer(rooms[roomID], players, clients[c].Player)
            IN  /\ rooms' = [rooms EXCEPT ![roomID] = added.Room]
                /\ players' = added.players
                /\ clients' = IF added.err = "ok"
                              THEN [clients EXCEPT ![c].RoomID = roomID] ELSE clients
                /\ send' = IF added.err = "ok"
                           THEN broadcastRoomState(send, c, rooms', clients', roomID)
                           ELSE SendError(send, c, "JOIN_FAILED")
    /\ UNCHANGED <<created, pend, crashed, leaving, pure>>

\* Hub.handleLeaveRoom (Manager.LeaveRoom)
handleLeaveRoom(c) ==
    /\ Reading(c)
    /\ IF clients[c].RoomID = ""
       THEN /\ send' = SendError(send, c, "NOT_IN_ROOM")
            /\ UNCHANGED <<rooms, clients>>
       ELSE LET left == LeaveRoom(rooms, players, clients[c].RoomID,
                                  players[clients[c].Player].ID)
            IN  /\ rooms' = left.rooms
                /\ clients' = IF left.err = "ok"
                              THEN [clients EXCEPT ![c].RoomID = ""] ELSE clients
                /\ send' = IF left.err = "ok"
                           THEN ListRooms(broadcastRoomState(send, c, rooms', clients',
                                                             clients[c].RoomID), c)
                           ELSE SendError(send, c, "LEAVE_FAILED")
    /\ UNCHANGED <<created, players, pend, crashed, leaving, pure>>

\* Hub.handleLeaveRoom inside Manager.LeaveRoom, from RemovePlayer to the
\* test `room.GetPlayerCount() == 0 && !room.GameStarted` where the test
\* is true: the room's lock is released, the directory's lock not yet taken.
LeaveRoomRemove(c) ==
    /\ Reading(c)
    /\ clients[c].RoomID \in DOMAIN rooms
    /\ LET id      == clients[c].RoomID
           removed == RoomRemovePlayer(rooms[id], players, players[clients[c].Player].ID)
       IN  /\ removed.err = "ok"
           /\ GetPlayerCount(removed.Room) = 0 /\ ~removed.Room.GameStarted
           /\ rooms' = [rooms EXCEPT ![id] = removed.Room]
           /\ leaving' = [leaving EXCEPT ![c] = id]
    /\ UNCHANGED <<created, players, clients, pend, crashed, pure, send>>

\* The rest of Manager.LeaveRoom and of Hub.handleLeaveRoom: the
\* directory's lock is taken, delete(m.rooms, roomID), then the client's
\* RoomID is cleared, the room state is broadcast and the room list sent.
LeaveRoomDelete(c) ==
    /\ ~Down
    /\ leaving[c] # ""
    /\ leaving' = [leaving EXCEPT ![c] = ""]
    /\ rooms' = MapDelete(rooms, leaving[c])
    /\ clients' = [clients EXCEPT ![c].RoomID = ""]
    /\ send' = ListRooms(broadcastRoomState(send, c, rooms', clients', leaving[c]), c)
    /\ UNCHANGED <<created, players, pend, crashed, pure>>

\* Hub.handleAddBot (Manager.AddBot)
handleAddBot(c, difficulty) ==
    /\ Reading(c)
    /\ IF clients[c].RoomID = ""
       THEN /\ send' = SendError(send, c, "NOT_IN_ROOM")
            /\ UNCHANGED <<rooms, players>>
       ELSE IF ~RoomExists(clients[c].RoomID)
       THEN /\ send' = SendError(send, c, "ADD_BOT_FAILED")
            /\ UNCHANGED <<rooms, players>>
       ELSE LET r     == rooms[clients[c].RoomID]
                botID == BotUUID(r.ID, Cardinality(DOMAIN r.Bots) + 1)
                added == RoomAddBot(r, players, botID, difficulty,
                                    players[clients[c].Player].ID)
            IN  /\ rooms' = [rooms EXCEPT ![r.ID] = added.Room]
                /\ players' = added.players
                /\ send' = IF added.err = "ok"
                           THEN broadcastRoomState(send, c, rooms', clients, r.ID)
                           ELSE SendError(send, c, "ADD_BOT_FAILED")
    /\ UNCHANGED <<created, clients, pend, crashed, leaving, pure>>

\* Hub.StartGame (Manager.StartGame), as the api package calls it.
StartGame(roomID, playerID) ==
    /\ ~Down
    /\ Sent(ApiCaller)
    /\ IF ~RoomExists(roomID)
       THEN /\ UNCHANGED <<rooms, send>>
       ELSE IF ~IsCreator(rooms[roomID], playerID)
       THEN /\ UNCHANGED <<rooms, send>>
       ELSE IF ~CanStart(rooms[roomID])
       THEN /\ UNCHANGED <<rooms, send>>
       ELSE LET started == RoomStartGame(rooms[roomID])
                begun   == broadcastToRoom(send, ApiCaller, clients, roomID,
                                           [Type |-> "GAME_START", RoomID |-> roomID])
            IN  /\ rooms' = [rooms EXCEPT ![roomID] = started.Room]
                /\ send' = IF started.err # "ok" THEN send
                           ELSE sendTurnStart(
                                    broadcastGameState(begun, ApiCaller, rooms', clients,
                                                       roomID),
                                    ApiCaller, rooms', players, clients, roomID)
    /\ UNCHANGED <<created, players, clients, pend, crashed, leaving, pure>>

\* Hub.handlePlaceTile
handlePlaceTile(c, pos, rotation) ==
    /\ Reading(c)
    /\ IF clients[c].RoomID = ""
       THEN /\ send' = SendError(send, c, "NOT_IN_ROOM")
            /\ UNCHANGED <<rooms, crashed>>
       ELSE IF ~RoomExists(clients[c].RoomID)
       THEN /\ send' = SendError(send, c, "ROOM_NOT_FOUND")
            /\ UNCHANGED <<rooms, crashed>>
       ELSE LET placed == RoomPlaceTile(rooms[clients[c].RoomID], players,
                                        players[clients[c].Player].ID, pos, rotation)
            IN  /\ rooms' = [rooms EXCEPT ![clients[c].RoomID] = placed.Room]
                /\ crashed' = (placed.err = "panic")
                /\ send' = IF placed.err = "panic" THEN send
                           ELSE IF placed.err = "ok"
                           THEN broadcastGameState(send, c, rooms', clients,
                                                   clients[c].RoomID)
                           ELSE SendError(send, c, "PLACE_TILE_FAILED")
    /\ UNCHANGED <<created, players, clients, pend, leaving, pure>>

\* Hub.handlePlaceMeeple up to the return of Room.PlaceMeeple; the call of
\* room.NextTurn() that follows a success takes the room's lock anew and is
\* the step NextTurn of this goroutine.
handlePlaceMeeple(c, featureID, pick) ==
    /\ Reading(c)
    /\ IF clients[c].RoomID = ""
       THEN /\ send' = SendError(send, c, "NOT_IN_ROOM")
            /\ UNCHANGED <<rooms, players, pend, crashed>>
       ELSE IF ~RoomExists(clients[c].RoomID)
       THEN /\ send' = SendError(send, c, "ROOM_NOT_FOUND")
            /\ UNCHANGED <<rooms, players, pend, crashed>>
       ELSE LET placed == RoomPlaceMeeple(rooms[clients[c].RoomID], players,
                                          players[clients[c].Player].ID, featureID, pick)
            IN  /\ rooms' = [rooms EXCEPT ![clients[c].RoomID] = placed.Room]
                /\ players' = placed.players
                /\ crashed' = (placed.err = "panic")
                /\ pend' = IF placed.err = "ok"
                           THEN [pend EXCEPT ![c] = clients[c].RoomID] ELSE pend
                /\ send' = IF placed.err \in {"ok", "panic"} THEN send
                           ELSE SendError(send, c, "PLACE_MEEPLE_FAILED")
    /\ UNCHANGED <<created, clients, leaving, pure>>

\* room.NextTurn() as handlePlaceMeeple and processBotMoves call it after
\* their move; g holds the *Room, which may have left the directory since.
\* broadcastGameState and sendTurnStart follow it; their reads of the room
\* are part of this step.
NextTurn(g) ==
    /\ ~Down
    /\ pend[g] # ""
    /\ Sent(g)
    /\ pend' = [pend EXCEPT ![g] = ""]
    /\ IF ~RoomExists(pend[g])
       THEN /\ UNCHANGED <<rooms, crashed, send>>
       ELSE LET turned == RoomNextTurn(rooms[pend[g]])
            IN  /\ rooms' = [rooms EXCEPT ![pend[g]] = turned.Room]
                /\ crashed' = turned.panic
                /\ send' = IF turned.panic THEN send
                           ELSE sendTurnStart(
                                    broadcastGameState(send, g, rooms', clients, pend[g]),
                                    g, rooms', players, clients, pend[g])
    /\ UNCHANGED <<created, players, clients, leaving, pure>>

\* One room of one tick of Hub.processBotMoves, up to the return of
\* Room.ProcessBotTurn (Bot.MakeMove, Bot.ExecuteMove).  `placement` is the
\* valid placement rand picks, `meeple` the feature it picks (-1: the coin
\* says no meeple), `pick` the tile PlaceMeeple's range loop stops at.
processBotMoves(roomID, placement, meeple, pick) ==
    /\ ~Down
    /\ pend[BotTicker] = ""
    /\ Sent(BotTicker)
    /\ RoomExists(roomID)
    /\ rooms[roomID].GameStarted
    /\ LET r == rooms[roomID] IN
       IF GetCurrentPlayerPanics(r.Board)
       THEN /\ crashed' = TRUE
            /\ UNCHANGED <<rooms, players, pend>>
       ELSE /\ IsCurrentPlayerBot(r, players)
            /\ LET bot    == GetCurrentPlayer(r.Board)
                   valid  == GetValidPlacements(r.Board)
                   move   == IF valid = {} THEN [Position |-> <<0, 0>>, Rotation |-> 0]
                             ELSE placement
                   wants  == /\ valid # {}
                             /\ players[bot].Meeples > 0
                             /\ meeple >= 0
                             /\ r.Board.CurrentTile # NilTile
                   placed == BoardPlaceTile(r.Board, move.Position, move.Rotation)
                   marked == IF wants
                             THEN BoardPlaceMeeple(placed.Board, players,
                                                   players[bot].ID, meeple, pick)
                             ELSE [err |-> "ok", Board |-> placed.Board,
                                   players |-> players]
               IN  /\ valid # {} => placement \in valid
                   /\ wants => meeple < Len(r.Board.CurrentTile[1].Features)
                   /\ (wants /\ MeeplelessTiles(placed.Board) # {})
                          => pick \in MeeplelessTiles(placed.Board)
                   /\ IF placed.err # "ok"
                      THEN /\ UNCHANGED <<rooms, players, pend>>
                      ELSE /\ rooms' = [rooms EXCEPT ![roomID].Board = marked.Board]
                           /\ players' = marked.players
                           /\ pend' = [pend EXCEPT ![BotTicker] = roomID]
            /\ UNCHANGED crashed
    /\ UNCHANGED <<created, clients, leaving, pure, send>>

\* close(client.send) in the hub's loop: closing a channel SendMessage has
\* closed already panics.
CloseSend(snd, c) ==
    IF ~snd.on THEN snd
    ELSE IF snd.closed[c] THEN [snd EXCEPT !.panicked = TRUE]
    ELSE [snd EXCEPT !.closed[c] = TRUE]

\* readPump of c returns (the peer is gone, or writePump found c.send
\* closed and closed the connection) and the hub's loop takes c from
\* h.unregister: it deletes c from h.clients and closes c.send (a panic
\* there ends the loop before anything else), then Manager.LeaveRoom for
\* its player, whose error is dropped, then the room state for those who
\* stay.
Unregister(c) ==
    /\ Reading(c)
    /\ Sent(HubLoop)
    /\ clients' = [clients EXCEPT ![c].conn = "closed"]
    /\ IF CloseSend(send, c).panicked
       THEN /\ UNCHANGED rooms
            /\ send' = CloseSend(send, c)
       ELSE IF clients[c].Player # "nil" /\ clients[c].RoomID # ""
       THEN LET left == LeaveRoom(rooms, players, clients[c].RoomID,
                                  players[clients[c].Player].ID)
            IN  /\ rooms' = left.rooms
                /\ send' = broadcastRoomState(CloseSend(send, c), HubLoop, rooms',
                                              clients', clients[c].RoomID)
       ELSE /\ UNCHANGED rooms
            /\ send' = CloseSend(send, c)
    /\ UNCHANGED <<created, players, pend, crashed, leaving, pure>>

\* writePump of c takes what c.send holds and writes it to the peer.
writePump(c) ==
    /\ ~Down
    /\ send.on
    /\ clients[c].conn = "open"
    /\ ~send.closed[c]
    /\ send.queue[c] # <<>>
    /\ send' = [send EXCEPT !.queue[c] = <<>>]
    /\ UNCHANGED <<rooms, created, players, clients, pend, crashed, leaving, pure>>

\* One turn of broadcastToRoom's loop in goroutine g, for client d, or the
\* one SendMessage of a message for d alone: d is taken from those the
\* message of g is still to go to; a client that is no longer in h.clients
\* with the RoomID is passed over.
SendNext(g, d) ==
    /\ ~Down
    /\ send.issued[g] # <<>>
    /\ d \in Head(send.issued[g]).left
    /\ LET head  == Head(send.issued[g])
           live  == head.room = "" \/ d \in Attached(clients, head.room)
           after == IF live THEN SendMessage(send, d, head.msg) ELSE send
       IN  send' = [after EXCEPT !.issued[g] =
                                    IF head.left = {d} THEN Tail(@)
                                    ELSE [@ EXCEPT ![1].left = @ \ {d}]]
    /\ UNCHANGED <<rooms, created, players, clients, pend, crashed, leaving, pure>>

-----------------------------------------------------------------------------
(* The server: every request of every client, the api call, the bot tick.  *)

\* A room id that names no room.
NoSuchRoom == "r0"

RoomIDInputs == DOMAIN rooms \cup {NoSuchRoom}

\* The board a request of c acts on, if its RoomID names a room.
BoardsOf(c) ==
    IF clients[c].RoomID \in DOMAIN rooms THEN {rooms[clients[c].RoomID].Board} ELSE {}

\* The positions a PLACE_TILE of c is tried with.
PositionsFor(c) ==
    UNION { PositionInputs(b) : b \in BoardsOf(c) } \cup {<<0, 0>>}

\* The tiles the range loop of PlaceMeeple can stop at (the origin stands in
\* when it finds none and the choice is not used).
PicksFor(b) == IF MeeplelessTiles(b) = {} THEN {<<0, 0>>} ELSE MeeplelessTiles(b)

PicksOf(c) == UNION { PicksFor(b) : b \in BoardsOf(c) } \cup
                  (IF BoardsOf(c) = {} THEN {<<0, 0>>} ELSE {})

\* What rand and the range loop can give one bot turn on board b: the valid
\* placements with a rotation of `rotations` (every valid one when there is
\* none of those), the zero move when there is no valid placement.
BotPlacements(b, rotations) ==
    LET valid    == GetValidPlacements(b)
        followed == { o \in valid : o.Rotation \in rotations }
    IN  IF valid = {} THEN {[Position |-> <<0, 0>>, Rotation |-> 0]}
        ELSE IF followed = {} THEN valid
        ELSE followed

BotPicks(b, placement) == MeeplelessTiles(b) \cup {placement.Position}

\* The server's steps with the environment's inputs drawn from I.
Server(I) ==
    \/ \E c \in I.Clients : ServeWS(c)
    \/ \E c \in I.Clients :
           \E id \in I.PlayerIDs[c], color \in I.Colors[c] : handleConnect(c, id, color)
    \/ \E c \in I.Clients, maxPlayers \in I.MaxPlayers, shuffled \in Shuffles(I.Orders, I.Pile) :
           created < I.Rooms /\ handleCreateRoom(c, maxPlayers, shuffled)
    \/ \E c \in I.Clients, roomID \in RoomIDInputs : handleJoinRoom(c, roomID)
    \/ \E c \in I.Clients : handleLeaveRoom(c)
    \/ \E c \in I.Clients, difficulty \in I.Difficulties : handleAddBot(c, difficulty)
    \/ \E roomID \in RoomIDInputs, playerID \in I.Starters : StartGame(roomID, playerID)
    \/ \E c \in I.Clients :
           \E pos \in PositionsFor(c), rotation \in I.Rotations :
               handlePlaceTile(c, pos, rotation)
    \/ \E c \in I.Clients :
           \E featureID \in I.Features, pick \in PicksOf(c) :
               handlePlaceMeeple(c, featureID, pick)
    \/ \E g \in Goroutines : NextTurn(g)
    \/ \E roomID \in { id \in DOMAIN rooms : rooms[id].GameStarted } :
           \E placement \in BotPlacements(rooms[roomID].Board, I.BotRotations) :
               \E meeple \in I.BotFeatures,
                  pick \in BotPicks(rooms[roomID].Board, placement) :
                   processBotMoves(roomID, placement, meeple, pick)
    \/ \E c \in I.Closers : Unregister(c)

\* Two players and a bot through a whole game.
GameInputs ==
    [Clients      |-> {"c1", "c2"},
     PlayerIDs    |-> [c \in Clients |-> IF c = "c1" THEN {"a"} ELSE {"b"}],
     Starters     |-> {"a", "b"},
     Closers      |-> {"c2"},
     Colors       |-> [c \in Clients |-> {"red"}],
     MaxPlayers   |-> {2},
     Rooms        |-> 1,
     Orders       |-> { <<0, 1, 9, 17, 2, 10, 18>> },
     Pile         |-> MaxDeck,
     Difficulties |-> {"easy"},
     Rotations    |-> {0},
     Features     |-> {0},
     BotRotations |-> {0},
     BotFeatures  |-> {-1, 0}]

Next == Server(GameInputs)

Spec == Init /\ [][Next]_vars

\* One player and a bot; tiles laid at every quarter turn and at two full
\* turns, on boards seeded with the start tile or with a road tile.
TilesInputs ==
    [Clients      |-> {"c1"},
     PlayerIDs    |-> [c \in Clients |-> {"a"}],
     Starters     |-> {"a"},
     Closers      |-> {"c1"},
     Colors       |-> [c \in Clients |-> {"red"}],
     MaxPlayers   |-> {2},
     Rooms        |-> 1,
     Orders       |-> { <<0, 1, 9, 2, 17, 10, 3>>, <<1, 0, 9, 2, 17, 10, 3>> },
     Pile         |-> MaxDeck,
     Difficulties |-> {"easy"},
     Rotations    |-> QuarterTurns \cup {720},
     Features     |-> {0},
     BotRotations |-> QuarterTurns,
     BotFeatures  |-> {-1}]

NextTiles == Server(TilesInputs)

SpecTiles == Init /\ [][NextTiles]_vars

\* Two players, one of whom may go away, and a draw pile one tile longer:
\* two turns can be taken before the pile runs out.
TurnInputs ==
    [Clients      |-> {"c1", "c2"},
     PlayerIDs    |-> [c \in Clients |-> IF c = "c1" THEN {"a"} ELSE {"b"}],
     Starters     |-> {"a"},
     Closers      |-> {"c1"},
     Colors       |-> [c \in Clients |-> {"red"}],
     MaxPlayers   |-> {2},
     Rooms        |-> 1,
     Orders       |-> { <<0, 1, 2, 9, 17, 10, 18>> },
     Pile         |-> MaxDeck + 1,
     Difficulties |-> {"easy"},
     Rotations    |-> {0},
     Features     |-> {0},
     BotRotations |-> {0},
     BotFeatures  |-> {-1}]

NextTurns == Server(TurnInputs)

SpecTurns == Init /\ [][NextTurns]_vars

\* What the program's own scheduling brings about: the ticker of
\* processBotMoves fires every two seconds, and a handler that has made its
\* move goes on to room.NextTurn().  The requests of the peers are not owed.
TurnsFairness ==
    /\ WF_vars(\E g \in Goroutines : NextTurn(g))
    /\ WF_vars(\E roomID \in DOMAIN rooms :
                 \E placement \in BotPlacements(rooms[roomID].Board, TurnInputs.BotRotations) :
                     \E meeple \in TurnInputs.BotFeatures,
                        pick \in BotPicks(rooms[roomID].Board, placement) :
                         processBotMoves(roomID, placement, meeple, pick))

SpecTurnsFair == SpecTurns /\ TurnsFairness

\* Two players and bots in rooms of every capacity a request can ask for
\* (1 is out of range); the second player picks the first one's color or
\* another; markers are asked for a feature no tile has.
LobbyInputs ==
    [Clients      |-> {"c1", "c2"},
     PlayerIDs    |-> [c \in Clients |-> IF c = "c1" THEN {"a"} ELSE {"b"}],
     Starters     |-> {"a", "b"},
     Closers      |-> {"c2"},
     Colors       |-> [c \in Clients |-> IF c = "c1" THEN {"red"} ELSE {"red", "blue"}],
     MaxPlayers   |-> {1, 2, 3},
     Rooms        |-> 1,
     Orders       |-> { <<0, 1, 9, 2, 17, 10, 3>> },
     Pile         |-> MaxDeck,
     Difficulties |-> {"easy"},
     Rotations    |-> {0},
     Features     |-> {2},
     BotRotations |-> {0},
     BotFeatures  |-> {-1}]

NextLobby == Server(LobbyInputs)

SpecLobby == Init /\ [][NextLobby]_vars

\* One player and a bot with the outbound channel followed: a peer that
\* reads late, a channel that fills up.
WireInputs ==
    [Clients      |-> {"c1"},
     PlayerIDs    |-> [c \in Clients |-> {"a"}],
     Starters     |-> {"a"},
     Closers      |-> {"c1"},
     Colors       |-> [c \in Clients |-> {"red"}],
     MaxPlayers   |-> {2},
     Rooms        |-> 1,
     Orders       |-> { <<0, 1, 9, 17, 2, 10, 18>> },
     Pile         |-> MaxDeck,
     Difficulties |-> {"easy"},
     Rotations    |-> {0},
     Features     |-> {0},
     BotRotations |-> {0},
     BotFeatures  |-> {-1}]

InitWire ==
    /\ rooms = EmptyMap
    /\ created = 0
    /\ players = EmptyMap
    /\ clients = [c \in Clients |-> [conn |-> "new", Player |-> "nil", RoomID |-> ""]]
    /\ pend = [g \in Goroutines |-> ""]
    /\ leaving = [g \in Goroutines |-> ""]
    /\ crashed = FALSE
    /\ pure = "none"
    /\ send = Channels(TRUE)

NextWire ==
    \/ Server(WireInputs)
    \/ \E c \in WireInputs.Clients : writePump(c)
    \/ \E c \in { x \in WireInputs.Clients : send.closed[x] } : Unregister(c)

SpecWire == InitWire /\ [][NextWire]_vars

\* One player who may ask for a second room, or for the first again, while
\* in one, and a bot.
RoomsInputs ==
    [Clients      |-> {"c1"},
     PlayerIDs    |-> [c \in Clients |-> {"a"}],
     Starters     |-> {"a"},
     Closers      |-> {"c1"},
     Colors       |-> [c \in Clients |-> {"red"}],
     MaxPlayers   |-> {2},
     Rooms        |-> 2,
     Orders       |-> { <<0, 1, 9, 17, 2, 10, 18>> },
     Pile         |-> MaxDeck,
     Difficulties |-> {"easy"},
     Rotations    |-> {0},
     Features     |-> {0},
     BotRotations |-> {0},
     BotFeatures  |-> {-1}]

NextRooms == Server(RoomsInputs)

SpecRooms == Init /\ [][NextRooms]_vars

\* The bot ids the room states sent so far have shown.
BotIDsShown == UNION { DOMAIN rooms[id].Bots : id \in DOMAIN rooms }

\* Two players and a bot, the second player connecting under the id a bot
\* was given (the room state shows it to the members of the room).
SameIDInputs ==
    [Clients      |-> {"c1", "c2"},
     PlayerIDs    |-> [c \in Clients |-> IF c = "c1" THEN {"a"}
                                         ELSE {BotUUID(RoomUUIDs[1], 1)}],
     Starters     |-> {"a"},
     Closers      |-> {"c2"},
     Colors       |-> [c \in Clients |-> IF c = "c1" THEN {"red"} ELSE {"green"}],
     MaxPlayers   |-> {3},
     Rooms        |-> 1,
     Orders       |-> { <<0, 1, 9, 17, 2, 10, 18>> },
     Pile         |-> MaxDeck,
     Difficulties |-> {"easy"},
     Rotations    |-> {0},
     Features     |-> {0},
     BotRotations |-> {0},
     BotFeatures  |-> {-1}]

\* The server's steps with the inputs of SameIDInputs; a CONNECT carries a
\* bot's id only once a room has that bot.
NextSameID ==
    \/ \E c \in SameIDInputs.Clients : ServeWS(c)
    \/ \E c \in SameIDInputs.Clients :
           \E id \in SameIDInputs.PlayerIDs[c] \cap ({"a"} \cup BotIDsShown),
              color \in SameIDInputs.Colors[c] : handleConnect(c, id, color)
    \/ \E c \in SameIDInputs.Clients, maxPlayers \in SameIDInputs.MaxPlayers,
          shuffled \in Shuffles(SameIDInputs.Orders, SameIDInputs.Pile) :
           created < SameIDInputs.Rooms /\ handleCreateRoom(c, maxPlayers, shuffled)
    \/ \E c \in SameIDInputs.Clients, roomID \in RoomIDInputs : handleJoinRoom(c, roomID)
    \/ \E c \in SameIDInputs.Clients : handleLeaveRoom(c)
    \/ \E c \in SameIDInputs.Clients, difficulty \in SameIDInputs.Difficulties :
           handleAddBot(c, difficulty)
    \/ \E roomID \in RoomIDInputs, playerID \in SameIDInputs.Starters :
           StartGame(roomID, playerID)
    \/ \E c \in SameIDInputs.Clients :
           \E pos \in PositionsFor(c), rotation \in SameIDInputs.Rotations :
               handlePlaceTile(c, pos, rotation)
    \/ \E c \in SameIDInputs.Clients :
           \E featureID \in SameIDInputs.Features, pick \in PicksOf(c) :
               handlePlaceMeeple(c, featureID, pick)
    \/ \E g \in Goroutines : NextTurn(g)
    \/ \E roomID \in { id \in DOMAIN rooms : rooms[id].GameStarted } :
           \E placement \in BotPlacements(rooms[roomID].Board, SameIDInputs.BotRotations) :
               \E meeple \in SameIDInputs.BotFeatures,
                  pick \in BotPicks(rooms[roomID].Board, placement) :
                   processBotMoves(roomID, placement, meeple, pick)
    \/ \E c \in SameIDInputs.Closers : Unregister(c)

SpecSameID == Init /\ [][NextSameID]_vars

\* One player and a bot through a game whose draw pile is one tile longer:
\* a turn advance that draws and one that finds the pile empty.
EndInputs ==
    [Clients      |-> {"c1"},
     PlayerIDs    |-> [c \in Clients |-> {"a"}],
     Starters     |-> {"a"},
     Closers      |-> {"c1"},
     Colors       |-> [c \in Clients |-> {"red"}],
     MaxPlayers   |-> {2},
     Rooms        |-> 1,
     Orders       |-> { <<0, 1, 2, 9, 17, 10, 18>> },
     Pile         |-> MaxDeck + 1,
     Difficulties |-> {"easy"},
     Rotations    |-> {0},
     Features     |-> {0},
     BotRotations |-> {0},
     BotFeatures  |-> {-1}]

NextEnd == Server(EndInputs)

SpecEnd == Init /\ [][NextEnd]_vars

\* A handler, or the bot's tick, that has made its move goes on to
\* room.NextTurn(): the call is the next statement of its goroutine.  That
\* the moves themselves are made, the bots' at their ticks and the peers' by
\* their requests, is what a property has to assume.
EndFairness == WF_vars(\E g \in Goroutines : NextTurn(g))

SpecEndFair == SpecEnd /\ EndFairness

\* Two players and a bot in the lobby, each turn of every broadcast loop a
\* step of its own: the handlers of the two connections run side by side.
FanOutInputs ==
    [Clients      |-> {"c1", "c2"},
     PlayerIDs    |-> [c \in Clients |-> IF c = "c1" THEN {"a"} ELSE {"b"}],
     Closers      |-> {"c2"},
     Colors       |-> [c \in Clients |-> IF c = "c1" THEN {"red"} ELSE {"blue"}],
     MaxPlayers   |-> {3},
     Rooms        |-> 1,
     Orders       |-> { <<0, 1, 9, 17, 2, 10, 18>> },
     Pile         |-> MaxDeck,
     Difficulties |-> {"easy"}]

InitFanOut ==
    /\ rooms = EmptyMap
    /\ created = 0
    /\ players = EmptyMap
    /\ clients = [c \in Clients |-> [conn |-> "new", Player |-> "nil", RoomID |-> ""]]
    /\ pend = [g \in Goroutines |-> ""]
    /\ leaving = [g \in Goroutines |-> ""]
    /\ crashed = FALSE
    /\ pure = "none"
    /\ send = [Channels(TRUE) EXCEPT !.stepwise = TRUE]

\* The clients that have a player and no room, those that have a room: the
\* peers of this specification ask for what the lobby would let them ask.
Outside ==
    { c \in FanOutInputs.Clients : clients[c].Player # "nil" /\ clients[c].RoomID = "" }

Inside == { c \in FanOutInputs.Clients : clients[c].RoomID # "" }

NextFanOut ==
    \/ \E c \in FanOutInputs.Clients : ServeWS(c)
    \/ \E c \in FanOutInputs.Clients :
           \E id \in FanOutInputs.PlayerIDs[c], color \in FanOutInputs.Colors[c] :
               handleConnect(c, id, color)
    \/ \E c \in FanOutInputs.Clients, maxPlayers \in FanOutInputs.MaxPlayers,
          shuffled \in Shuffles(FanOutInputs.Orders, FanOutInputs.Pile) :
           created < FanOutInputs.Rooms /\ handleCreateRoom(c, maxPlayers, shuffled)
    \/ \E c \in Outside, roomID \in DOMAIN rooms : handleJoinRoom(c, roomID)
    \/ \E c \in Inside, difficulty \in FanOutInputs.Difficulties :
           handleAddBot(c, difficulty)
    \/ \E g \in Senders, d \in FanOutInputs.Clients : SendNext(g, d)
    \/ \E c \in FanOutInputs.Clients : writePump(c)
    \/ \E c \in FanOutInputs.Closers \cup { x \in FanOutInputs.Clients : send.closed[x] } :
           Unregister(c)

SpecFanOut == InitFanOut /\ [][NextFanOut]_vars

\* One player asking for bots with a difficulty of the documented three or
\* with another word, and for markers on feature 0 or on feature -1.
BotInputs ==
    [Clients      |-> {"c1"},
     PlayerIDs    |-> [c \in Clients |-> {"a"}],
     Starters     |-> {"a"},
     Closers      |-> {"c1"},
     Colors       |-> [c \in Clients |-> {"red"}],
     MaxPlayers   |-> {3},
     Rooms        |-> 1,
     Orders       |-> { <<0, 1, 9, 2, 17, 10, 3>> },
     Pile         |-> MaxDeck,
     Difficulties |-> {"easy", "expert"},
     Rotations    |-> {0},
     Features     |-> {-1, 0},
     BotRotations |-> {0},
     BotFeatures  |-> {-1}]

NextBots == Server(BotInputs)

SpecBots == Init /\ [][NextBots]_vars

\* The players and the bot of Spec, with Manager.LeaveRoom followed from
\* one lock to the next where it deletes the room.
NextLeave ==
    \/ Next
    \/ \E c \in GameInputs.Clients : LeaveRoomRemove(c)
    \/ \E c \in GameInputs.Clients : LeaveRoomDelete(c)

SpecLeave == Init /\ [][NextLeave]_vars

-----------------------------------------------------------------------------
(* The locks: Manager.mutex and each Room.mutex, with every call on a      *)
(* mutex a step.  The variable pure holds the keys of m.rooms (dir), who   *)
(* holds which mutex in which mode (held), what each goroutine has still   *)
(* to execute of the method it is in (pc), and the slice of room infos a   *)
(* range over m.rooms has made (infos).                                    *)

\* The rooms CreateRoom may make.
LockRooms == {RoomUUIDs[1], RoomUUIDs[2]}

\* The goroutines that call the manager: the readPump of one connection
\* and the bot ticker.
LockTasks == {"c1", BotTicker}

\* One statement of a method: a call on the mutex of `on` ("m" is
\* Manager.mutex, a room id the mutex of that room), or a statement on the
\* directory or the room `on`.
LockCall(do, on) == [do |-> do, on |-> on, seen |-> {}]

\* mutex.Lock() or RLock() with the deferred (or closing) Unlock() or
\* RUnlock() around the statements of body.
Guarded(mode, mu, body) ==
    <<LockCall(mode, mu)>> \o body
        \o <<LockCall(IF mode = "Lock" THEN "Unlock" ELSE "RUnlock", mu)>>

\* Room.GetRoomInfo and Room.GetPlayerCount: the fields are read under the
\* room's read lock.
RoomGetRoomInfo(r) == Guarded("RLock", r, <<>>)

\* Manager.CreateRoom
ManagerCreateRoom == Guarded("Lock", "m", <<LockCall("insert", "m")>>)

\* Manager.GetRoom
ManagerGetRoom(roomID) == Guarded("RLock", "m", <<LockCall("lookup", roomID)>>)

\* Manager.ListRooms: the range over m.rooms calls room.GetRoomInfo().
ManagerListRooms == Guarded("RLock", "m", <<LockCall("range", "m")>>)

\* Manager.GetActiveRooms: the same range, with a filter on the infos.
ManagerGetActiveRooms == Guarded("RLock", "m", <<LockCall("range", "m")>>)

\* Manager.LeaveRoom: GetRoom, room.RemovePlayer (which may refuse),
\* room.GetPlayerCount, and for an empty room that has not started the
\* delete under m.mutex.
ManagerLeaveRoom(roomID, outcome) ==
    ManagerGetRoom(roomID)
        \o Guarded("Lock", roomID, <<LockCall("mutate", roomID)>>)
        \o (IF outcome = "refused" THEN <<>>
            ELSE RoomGetRoomInfo(roomID)
                     \o (IF outcome = "empty"
                         THEN Guarded("Lock", "m", <<LockCall("delete", roomID)>>)
                         ELSE <<>>))

\* The body of the loop of Hub.processBotMoves for one room info: nothing
\* for a room that has not started; else GetRoom, room.IsCurrentPlayerBot,
\* and for a bot room.ProcessBotTurn and, where that made a move,
\* room.NextTurn.
BotMoveCalls(roomID, outcome) ==
    IF outcome = "waiting" THEN <<>>
    ELSE ManagerGetRoom(roomID)
             \o Guarded("RLock", roomID, <<>>)
             \o (IF outcome = "human" THEN <<>>
                 ELSE Guarded("Lock", roomID, <<LockCall("mutate", roomID)>>)
                          \o (IF outcome = "failed" THEN <<>>
                              ELSE Guarded("Lock", roomID,
                                           <<LockCall("mutate", roomID)>>)))

\* What a goroutine may call next: the ticker one tick (ListRooms, then the
\* loop over the infos), a handler CreateRoom, GetActiveRooms (LIST_ROOMS)
\* or LeaveRoom.
Programs(t) ==
    IF t = BotTicker THEN { ManagerListRooms \o <<LockCall("each", "m")>> }
    ELSE { ManagerGetActiveRooms }
             \cup { ManagerCreateRoom : r \in LockRooms \ pure.dir }
             \cup { ManagerLeaveRoom(r, o) :
                        r \in LockRooms, o \in {"refused", "stays", "empty"} }

InitLocks ==
    /\ rooms = EmptyMap
    /\ created = 0
    /\ players = EmptyMap
    /\ clients = [c \in Clients |-> [conn |-> "new", Player |-> "nil", RoomID |-> ""]]
    /\ pend = [g \in Goroutines |-> ""]
    /\ leaving = [g \in Goroutines |-> ""]
    /\ crashed = FALSE
    /\ send = Channels(FALSE)
    /\ pure = [dir   |-> {},
               held  |-> {},
               pc    |-> [t \in LockTasks |-> <<>>],
               infos |-> [t \in LockTasks |-> {}]]

\* Goroutine t, between two calls, makes its next call.
Call(t) ==
    /\ pure.pc[t] = <<>>
    /\ \E prog \in Programs(t) : pure' = [pure EXCEPT !.pc[t] = prog, !.infos[t] = {}]
    /\ UNCHANGED <<rooms, created, players, clients, pend, leaving, crashed, send>>

\* sync.RWMutex Lock and RLock: Lock waits until no one holds the mutex,
\* RLock until no writer does.
Acquire(t) ==
    /\ pure.pc[t] # <<>>
    /\ LET s == Head(pure.pc[t])
       IN  /\ s.do \in {"Lock", "RLock"}
           /\ \A h \in pure.held : h[2] = s.on => (s.do = "RLock" /\ h[3] = "RLock")
           /\ pure' = [pure EXCEPT !.held = @ \cup {<<t, s.on, s.do>>},
                                   !.pc[t] = Tail(@)]
    /\ UNCHANGED <<rooms, created, players, clients, pend, leaving, crashed, send>>

\* sync.RWMutex Unlock and RUnlock
Release(t) ==
    /\ pure.pc[t] # <<>>
    /\ LET s == Head(pure.pc[t])
       IN  /\ s.do \in {"Unlock", "RUnlock"}
           /\ pure' = [pure EXCEPT
                         !.held = @ \ {<<t, s.on, IF s.do = "Unlock" THEN "Lock"
                                                  ELSE "RLock">>},
                         !.pc[t] = Tail(@)]
    /\ UNCHANGED <<rooms, created, players, clients, pend, leaving, crashed, send>>

\* `for _, room := range m.rooms` of ListRooms and GetActiveRooms: the next
\* room, in the order the map gives, has its GetRoomInfo called; after the
\* last one the infos are what the method returns.
Range(t) ==
    /\ pure.pc[t] # <<>>
    /\ LET s == Head(pure.pc[t])
       IN  /\ s.do = "range"
           /\ IF pure.dir \subseteq s.seen
              THEN pure' = [pure EXCEPT !.pc[t] = Tail(@), !.infos[t] = s.seen]
              ELSE \E r \in pure.dir \ s.seen :
                       pure' = [pure EXCEPT
                                  !.pc[t] = RoomGetRoomInfo(r)
                                                \o <<[s EXCEPT !.seen = @ \cup {r}]>>
                                                \o Tail(@)]
    /\ UNCHANGED <<rooms, created, players, clients, pend, leaving, crashed, send>>

\* `for _, roomInfo := range rooms` of Hub.processBotMoves
Each(t) ==
    /\ pure.pc[t] # <<>>
    /\ Head(pure.pc[t]).do = "each"
    /\ IF pure.infos[t] = {}
       THEN pure' = [pure EXCEPT !.pc[t] = Tail(@)]
       ELSE \E r \in pure.infos[t], o \in {"waiting", "human", "failed", "moved"} :
                pure' = [pure EXCEPT !.pc[t] = BotMoveCalls(r, o) \o @,
                                     !.infos[t] = @ \ {r}]
    /\ UNCHANGED <<rooms, created, players, clients, pend, leaving, crashed, send>>

\* What is left of a method after the `return` or `continue` that follows
\* an error of GetRoom: nothing, or the loop of the tick.
AfterError(rest) ==
    IF \E i \in DOMAIN rest : rest[i].do = "each"
    THEN LET i == CHOOSE k \in DOMAIN rest :
                      /\ rest[k].do = "each"
                      /\ \A j \in 1..(k - 1) : rest[j].do # "each"
         IN  <<LockCall("RUnlock", "m")>> \o SubSeq(rest, i, Len(rest))
    ELSE <<LockCall("RUnlock", "m")>>

\* The statements between the lock calls: m.rooms[room.ID] = room, the
\* lookup of GetRoom, delete(m.rooms, roomID), and what a method of Room
\* does to the room or its board.
Work(t) ==
    /\ pure.pc[t] # <<>>
    /\ LET s == Head(pure.pc[t])
       IN  /\ s.do \in {"insert", "lookup", "delete", "mutate"}
           /\ CASE s.do = "insert" ->
                       \E r \in LockRooms \ pure.dir :
                           pure' = [pure EXCEPT !.dir = @ \cup {r}, !.pc[t] = Tail(@)]
                [] s.do = "delete" ->
                       pure' = [pure EXCEPT !.dir = @ \ {s.on}, !.pc[t] = Tail(@)]
                [] s.do = "lookup" /\ s.on \notin pure.dir ->
                       pure' = [pure EXCEPT !.pc[t] = AfterError(Tail(@))]
                [] OTHER ->
                       pure' = [pure EXCEPT !.pc[t] = Tail(@)]
    /\ UNCHANGED <<rooms, created, players, clients, pend, leaving, crashed, send>>

NextLocks ==
    \/ \E t \in LockTasks : Call(t)
    \/ \E t \in LockTasks : Acquire(t)
    \/ \E t \in LockTasks : Release(t)
    \/ \E t \in LockTasks : Range(t)
    \/ \E t \in LockTasks : Each(t)
    \/ \E t \in LockTasks : Work(t)

SpecLocks == InitLocks /\ [][NextLocks]_vars

-----------------------------------------------------------------------------
(* PlacedTile.CanPlaceAt as a pure function: one call on a board, a tile,  *)
(* a position and a rotation drawn from the sets below.                    *)

\* A tile no standard set holds: city to the west, road to the east.
CityRoadTile ==
    [ID |-> 21, North |-> Field, East |-> Road, South |-> Field, West |-> City,
     HasMonastery |-> FALSE, Features |-> <<CityFeature, RoadFeature>>]

\* One tile of each shape of the standard set.
StandardShapes == { CreateStandardTileSet[i] : i \in {0, 1, 9, 17} }

TileInputs == StandardShapes \cup {CityRoadTile}

\* The tile definition after rotation/90 calls of Tile.Rotate.
RECURSIVE Turned(_, _)
Turned(t, rotation) == IF rotation = 0 THEN t ELSE Rotate(Turned(t, rotation - 90))

\* The cells a board of the pure check is laid on: the origin, then east,
\* then south of that.
BoardShapes ==
    { {<<0, 0>>}, {<<0, 0>>, <<1, 0>>}, {<<0, 0>>, <<0, 1>>},
      {<<0, 0>>, <<1, 0>>, <<1, 1>>} }

\* The neighbours of a cell with the side of the cell they touch and the
\* side they touch it with.
Sides(pos) ==
    { <<(<<pos[1], pos[2] - 1>>), "North", "South">>,
      <<(<<pos[1] + 1, pos[2]>>), "East", "West">>,
      <<(<<pos[1], pos[2] + 1>>), "South", "North">>,
      <<(<<pos[1] - 1, pos[2]>>), "West", "East">> }

\* The edge a placed tile shows on a side, by turning its definition.
Shows(pt, side) == Turned(pt.Tile, pt.Rotation)[side]

\* Every two neighbouring tiles of the board show each other the same edge.
EdgesAgree(board) ==
    \A pos \in DOMAIN board : \A s \in Sides(pos) :
        s[1] \in DOMAIN board => Shows(board[pos], s[2]) = Shows(board[s[1]], s[3])

\* The boards of the pure check: the tile at the origin is not rotated
\* (NewBoard), the others lie as PlaceTile accepts them.
BoardInputs ==
    UNION { { b \in [shape -> [Tile : StandardShapes, Rotation : QuarterTurns]] :
                b[<<0, 0>>].Rotation = 0 } : shape \in BoardShapes }

LegalBoards ==
    { [pos \in DOMAIN b |-> PlacedTile(b[pos].Tile, pos, b[pos].Rotation)] :
        b \in { x \in BoardInputs : EdgesAgree(x) } }

\* The cells a placement is asked for.
CellInputs == (-1 .. 2) \X (-1 .. 2)

InitCanPlace ==
    /\ rooms = EmptyMap
    /\ created = 0
    /\ players = EmptyMap
    /\ clients = [c \in Clients |-> [conn |-> "new", Player |-> "nil", RoomID |-> ""]]
    /\ pend = [g \in Goroutines |-> ""]
    /\ leaving = [g \in Goroutines |-> ""]
    /\ crashed = FALSE
    /\ pure \in [board : LegalBoards, tile : TileInputs, pos : CellInputs,
                 rotation : QuarterTurns, called : {FALSE}, result : {FALSE}]
    /\ send = Channels(FALSE)

\* placedTile.CanPlaceAt(b.Tiles, pos) as PlaceTile and GetValidPlacements
\* call it.
CallCanPlaceAt ==
    /\ ~pure.called
    /\ pure' = [pure EXCEPT
                  !.called = TRUE,
                  !.result = CanPlaceAt(PlacedTile(pure.tile, pure.pos, pure.rotation),
                                        pure.board, pure.pos)]
    /\ UNCHANGED <<rooms, created, players, clients, pend, leaving, crashed, send>>

NextCanPlace == CallCanPlaceAt

SpecCanPlace == InitCanPlace /\ [][NextCanPlace]_vars

\* The occupied neighbours of the cell asked for.
OccupiedSides == { s \in Sides(pure.pos) : s[1] \in DOMAIN pure.board }

\* C10: canPlace is true exactly when the position is unoccupied, at least
\* one orthogonal neighbour is occupied and, for every occupied neighbour,
\* the edge the turned tile shows it equals the edge the turned neighbour
\* shows back (rotations 0/90/180/270); a tile with a city west edge east of
\* a tile showing a road is rejected unturned, and a tile that after its
\* turn shows a road to a lone west neighbour showing a road is accepted.
C10_CanPlaceExact ==
    pure.called =>
        LET asked == PlacedTile(pure.tile, pure.pos, pure.rotation)
            west  == <<pure.pos[1] - 1, pure.pos[2]>>
        IN  /\ pure.result <=>
                  /\ pure.pos \notin DOMAIN pure.board
                  /\ OccupiedSides # {}
                  /\ \A s \in OccupiedSides :
                        Shows(asked, s[2]) = Shows(pure.board[s[1]], s[3])
            /\ ( /\ pure.tile.West = City
                 /\ pure.rotation = 0
                 /\ west \in DOMAIN pure.board
                 /\ Shows(pure.board[west], "East") = Road ) => ~pure.result
            /\ ( /\ pure.pos \notin DOMAIN pure.board
                 /\ { s[1] : s \in OccupiedSides } = {west}
                 /\ Shows(pure.board[west], "East") = Road
                 /\ Shows(asked, "West") = Road ) => pure.result

\* The city-west tile, turned by 180, was asked for east of an origin tile
\* showing a road, and accepted.
C10_Witness ==
    /\ pure.called
    /\ pure.result
    /\ pure.tile.West = City
    /\ pure.rotation = 180
    /\ pure.pos = <<1, 0>>
    /\ DOMAIN pure.board = {<<0, 0>>}
    /\ pure.board[<<0, 0>>].Tile.East = Road

-----------------------------------------------------------------------------
(* Board.GetValidPlacements as a pure function: up to two calls on one     *)
(* board with one current tile.  The slice it returns is a sequence; the   *)
(* order of `for pos := range positions` over a Go map is left open by the *)
(* language and may differ from one loop to the next.                      *)

\* The positions of S from the smallest (X, then Y) to the largest.
RECURSIVE Ascending(_)
Ascending(S) ==
    IF S = {} THEN <<>>
    ELSE LET first == CHOOSE p \in S :
                          \A q \in S : p[1] < q[1] \/ (p[1] = q[1] /\ p[2] <= q[2])
         IN  <<first>> \o Ascending(S \ {first})

\* A sequence read from its k-th element on, wrapping around.
StartingAt(s, k) == [i \in 1 .. Len(s) |-> s[((i + k - 2) % Len(s)) + 1]]

\* A sequence read backwards.
Backwards(s) == [i \in 1 .. Len(s) |-> s[Len(s) + 1 - i]]

\* The orders one range loop over a map with the keys S is tried in: every
\* order for up to four keys, and for more keys the ascending order, the
\* ascending order started at the second key and the descending order.
RangeOrders(S) ==
    IF Cardinality(S) <= 4
    THEN { s \in [1 .. Cardinality(S) -> S] : { s[i] : i \in DOMAIN s } = S }
    ELSE { Ascending(S), StartingAt(Ascending(S), 2), Backwards(Ascending(S)) }

\* The (position, rotation) pairs the two loops of GetValidPlacements try,
\* in the order they try them.
PlacementCandidates(possiblePositions) ==
    [k \in 1 .. 4 * Len(possiblePositions) |->
        [Position |-> possiblePositions[((k - 1) \div 4) + 1],
         Rotation |-> 90 * ((k - 1) % 4)]]

\* GetValidPlacements with its rotation loop stopping before 270.
ValidPlacementOptionsThreeTurns(b, possiblePositions) ==
    IF b.CurrentTile = NilTile THEN <<>>
    ELSE LET Valid(o) == /\ o.Rotation < 270
                         /\ CanPlaceAt(PlacedTile(b.CurrentTile[1], o.Position, o.Rotation),
                                       b.Tiles, o.Position)
         IN  SelectSeq(PlacementCandidates(possiblePositions), Valid)

\* Board.GetValidPlacements, as the slice it returns; possiblePositions is
\* the slice getPossiblePositions built.
ValidPlacementOptions(b, possiblePositions) ==
    IF b.CurrentTile = NilTile THEN <<>>
    ELSE LET Valid(o) == CanPlaceAt(PlacedTile(b.CurrentTile[1], o.Position, o.Rotation),
                                    b.Tiles, o.Position)
         IN  SelectSeq(PlacementCandidates(possiblePositions), Valid)

\* A board holding the placed tiles and the current tile of the pure check.
PureBoard ==
    [NewBoard(<<CreateStandardTileSet[0]>>) EXCEPT !.Tiles = pure.board,
                                                   !.CurrentTile = <<pure.tile>>,
                                                   !.GameStarted = TRUE]

InitPlacements ==
    /\ rooms = EmptyMap
    /\ created = 0
    /\ players = EmptyMap
    /\ clients = [c \in Clients |-> [conn |-> "new", Player |-> "nil", RoomID |-> ""]]
    /\ pend = [g \in Goroutines |-> ""]
    /\ leaving = [g \in Goroutines |-> ""]
    /\ crashed = FALSE
    /\ pure \in [board : LegalBoards, tile : StandardShapes, calls : {<<>>}]
    /\ send = Channels(FALSE)

\* b.GetValidPlacements(), the map of candidate positions ranged over in
\* the given order.
CallGetValidPlacements(order) ==
    /\ Len(pure.calls) < 2
    /\ pure' = [pure EXCEPT !.calls = Append(@, ValidPlacementOptions(PureBoard, order))]
    /\ UNCHANGED <<rooms, created, players, clients, pend, leaving, crashed, send>>

NextPlacements ==
    \E order \in RangeOrders(getPossiblePositions(PureBoard)) :
        CallGetValidPlacements(order)

SpecPlacements == InitPlacements /\ [][NextPlacements]_vars

\* The pairs PlaceTile is asked for: the cells of the boards of the pure
\* check and the cells around them, with every quarter turn.
PairInputs == [Position : CellInputs, Rotation : QuarterTurns]

\* C11: on a board with a current tile GetValidPlacements returns exactly
\* the (position, rotation) pairs with rotation 0, 90, 180 or 270 for which
\* canPlace holds, none missing and none twice; PlaceTile accepts every
\* returned pair and rejects every other pair with such a rotation.
C11_ExactlyTheLegalPairs ==
    pure.calls # <<>> =>
        LET returned == pure.calls[Len(pure.calls)]
            pairs    == { returned[i] : i \in DOMAIN returned }
        IN  /\ pairs = { o \in PairInputs :
                           CanPlaceAt(PlacedTile(pure.tile, o.Position, o.Rotation),
                                      pure.board, o.Position) }
            /\ \A i, j \in DOMAIN returned : returned[i] = returned[j] => i = j
            /\ \A o \in PairInputs :
                   (BoardPlaceTile(PureBoard, o.Position, o.Rotation).err = "ok")
                       <=> o \in pairs

\* A call on a board of three tiles returned the cell that touches two of
\* them, next to pairs it left out.
C11_Witness ==
    /\ Len(pure.calls) >= 1
    /\ DOMAIN pure.board = {<<0, 0>>, <<1, 0>>, <<1, 1>>}
    /\ \E i \in DOMAIN pure.calls[1] : pure.calls[1][i].Position = <<0, 1>>
    /\ Len(pure.calls[1]) < 4 * Cardinality(getPossiblePositions(PureBoard))

\* C12: GetValidPlacements run twice on the identical board and current
\* tile yields the identical result in the identical order.
C12_SameOrderTwice ==
    Len(pure.calls) = 2 => pure.calls[1] = pure.calls[2]

-----------------------------------------------------------------------------
(* PlacedTile.GetEdge as a pure function: one call on a tile definition, a *)
(* rotation and a direction.                                               *)

\* The directions of the Direction type.
Directions == {North, East, South, West}

InitGetEdge ==
    /\ rooms = EmptyMap
    /\ created = 0
    /\ players = EmptyMap
    /\ clients = [c \in Clients |-> [conn |-> "new", Player |-> "nil", RoomID |-> ""]]
    /\ pend = [g \in Goroutines |-> ""]
    /\ leaving = [g \in Goroutines |-> ""]
    /\ crashed = FALSE
    /\ pure \in [tile : TileInputs, rotation : QuarterTurns, dir : Directions,
                 called : {FALSE}, result : {Field}]
    /\ send = Channels(FALSE)

\* pt.GetEdge(dir) on a placed tile holding the tile definition; the call
\* reads pt.Tile and pt.Rotation and writes nothing.
CallGetEdge ==
    /\ ~pure.called
    /\ pure' = [pure EXCEPT
                  !.called = TRUE,
                  !.result = GetEdge(PlacedTile(pure.tile, <<0, 0>>, pure.rotation),
                                     pure.dir)]
    /\ UNCHANGED <<rooms, created, players, clients, pend, leaving, crashed, send>>

NextGetEdge == CallGetEdge

SpecGetEdge == InitGetEdge /\ [][NextGetEdge]_vars

\* C29: for every tile, every rotation r of 0, 90, 180, 270 and every
\* direction d, GetEdge on the placed tile returns the base tile's edge at
\* direction (d - r/90) mod 4, which is the edge at d of the tile after r/90
\* calls of Tile.Rotate; the lookup leaves the tile definition as it was.
C29_GetEdgeTurnsTheTile ==
    [][ CallGetEdge =>
          /\ pure'.result = EdgeOf(pure.tile, (pure.dir - (pure.rotation \div 90)) % 4)
          /\ pure'.result = EdgeOf(Turned(pure.tile, pure.rotation), pure.dir)
          /\ pure'.tile = pure.tile ]_vars

\* The tile with a city to the west, turned by 90, was asked for its north
\* edge and showed the city.
C29_Witness ==
    /\ pure.called
    /\ pure.tile = CityRoadTile
    /\ pure.rotation = 90
    /\ pure.dir = North
    /\ pure.result = City

-----------------------------------------------------------------------------
(* Properties of the server.                                               *)

\* The board after n calls of Board.NextTurn in a row.
RECURSIVE TurnsTaken(_, _)
TurnsTaken(b, n) == IF n = 0 THEN b ELSE TurnsTaken(BoardNextTurn(b).Board, n - 1)

\* The rooms on which a call of room.NextTurn() is about to be made.
TurnsPending == { pend[g] : g \in Goroutines } \cap DOMAIN rooms

\* C13: on a board with N players, N calls of NextTurn in a row bring the
\* turn index back to where it was, provided the draw pile holds a tile for
\* each of them; each single call moves the index to (index + 1) mod N.
\* Stated for every board NextTurn is about to be called on.
C13_TurnsWrapAround ==
    \A id \in TurnsPending :
        LET b == rooms[id].Board
            N == Len(b.Players)
        IN  (N >= 1 /\ Len(b.TileDeck) >= N) =>
                /\ BoardNextTurn(b).Board.CurrentPlayer = (b.CurrentPlayer + 1) % N
                /\ TurnsTaken(b, N).CurrentPlayer = b.CurrentPlayer

\* The player ids a call is tried with: every id that connected, and one
\* that did not.
KnownIDs == { players[p].ID : p \in DOMAIN players } \cup {"nobody"}

\* The id of the board's current-turn player, "" when the board has none
\* (no player, or a turn index past the end of the list).
CurrentTurnID(b) ==
    IF Len(b.Players) = 0 \/ GetCurrentPlayerPanics(b) THEN ""
    ELSE players[GetCurrentPlayer(b)].ID

\* C1: Room.PlaceTile and Room.PlaceMeeple called with a player id that is
\* not the id of the board's current-turn player fail with "not your turn"
\* and leave the room's board and every marker count as they were.
C1_NotYourTurn ==
    \A roomID \in DOMAIN rooms : \A playerID \in KnownIDs :
        LET r == rooms[roomID]
        IN  playerID # CurrentTurnID(r.Board) =>
              /\ \A pos \in PositionInputs(r.Board), rotation \in QuarterTurns :
                    LET res == RoomPlaceTile(r, players, playerID, pos, rotation)
                    IN  res.err = "not your turn" /\ res.Room = r
              /\ \A featureID \in {0, 1}, pick \in PicksFor(r.Board) :
                    LET res == RoomPlaceMeeple(r, players, playerID, featureID, pick)
                    IN  res.err = "not your turn" /\ res.Room = r /\ res.players = players

\* How many markers of the player with that id lie on the board.
MarkersOnBoard(b, playerID) ==
    Cardinality({ m \in { <<pos, i>> : pos \in DOMAIN b.Tiles, i \in 1..2 } :
                    /\ m[2] <= Len(b.Tiles[m[1]].Meeples)
                    /\ b.Tiles[m[1]].Meeples[m[2]].PlayerID = playerID })

\* C3: for every player of a room's board, the markers the player has left
\* plus the player's markers on that board are at most 7.
C3_MarkersAtMostSeven ==
    \A roomID \in DOMAIN rooms :
        LET b == rooms[roomID].Board
        IN  \A i \in 1..Len(b.Players) :
                players[b.Players[i]].Meeples
                    + MarkersOnBoard(b, players[b.Players[i]].ID) <= 7

\* C9: a board has a current tile only if its game is started and not ended.
C9_CurrentTileOnlyWhilePlaying ==
    \A roomID \in DOMAIN rooms :
        LET b == rooms[roomID].Board
        IN  b.CurrentTile # NilTile => b.GameStarted /\ ~b.GameEnded

\* C7: once the draw pile has run out and the board is Ended, every
\* PlaceTile call fails.
C7_EndedRejectsPlaceTile ==
    \A roomID \in DOMAIN rooms :
        LET r == rooms[roomID]
        IN  r.Board.GameEnded =>
              \A playerID \in KnownIDs, pos \in PositionInputs(r.Board),
                 rotation \in QuarterTurns :
                    RoomPlaceTile(r, players, playerID, pos, rotation).err # "ok"

\* C8: once a board is Ended, no step changes its placed tiles, the markers
\* on them, a player's marker count, its current tile or its turn index.
C8_EndedIsFrozen ==
    [][\A roomID \in DOMAIN rooms \cap DOMAIN rooms' :
          LET b == rooms[roomID].Board
          IN  b.GameEnded =>
                /\ rooms'[roomID].Board.Tiles = b.Tiles
                /\ rooms'[roomID].Board.CurrentTile = b.CurrentTile
                /\ rooms'[roomID].Board.CurrentPlayer = b.CurrentPlayer
                /\ \A i \in 1..Len(b.Players) :
                      players'[b.Players[i]].Meeples = players[b.Players[i]].Meeples]_vars

\* C2: on every board, every placed tile but the origin tile has a placed
\* tile orthogonally next to it, and every two orthogonally adjacent placed
\* tiles, each turned by its rotation, show each other the same edge kind.
C2_TilesAdjoinAndAgree ==
    \A roomID \in DOMAIN rooms :
        LET tiles == rooms[roomID].Board.Tiles
        IN  /\ \A pos \in DOMAIN tiles \ {<<0, 0>>} :
                  \E s \in Sides(pos) : s[1] \in DOMAIN tiles
            /\ EdgesAgree(tiles)

\* C4: a room never has more members (humans plus bots) than its capacity,
\* the capacity is between 2 and 5, and a room at capacity refuses every
\* further AddPlayer and AddBot, in whatever order the calls arrive.
C4_MembersWithinCapacity ==
    \A roomID \in DOMAIN rooms :
        LET r == rooms[roomID]
            n == Cardinality(DOMAIN r.Players) + Cardinality(DOMAIN r.Bots)
        IN  /\ n <= r.MaxPlayers
            /\ r.MaxPlayers \in 2..5
            /\ n = r.MaxPlayers =>
                  /\ \A p \in DOMAIN players :
                        RoomAddPlayer(r, players, p).err # "ok"
                  /\ RoomAddBot(r, players, "bot-next", "easy", r.CreatedBy).err # "ok"

\* A room asked for with capacity 1 holds five members, humans and bots.
C4_Witness ==
    \E roomID \in DOMAIN rooms :
        LET r == rooms[roomID]
        IN  /\ r.MaxPlayers = 5
            /\ Cardinality(DOMAIN r.Players) = 2
            /\ Cardinality(DOMAIN r.Bots) = 3

C6_DistinctColors ==
    \A roomID \in DOMAIN rooms :
        \A p, q \in Members(rooms[roomID]) :
            p # q => players[p].Color # players[q].Color

\* The players of the connections: what a join is made with.
Connected == { clients[c].Player : c \in Clients } \ {"nil"}

\* C14: Room.AddPlayer fails, leaving the membership and the board's player
\* list as they were, when the game has started, when the room is at
\* capacity, or when the player id is already a human member; otherwise it
\* succeeds and adds the player to the membership and to the board.  A join
\* to a full room fails and, once a member is removed, the same join
\* succeeds.  Stated for every room and every connected player.
C14_AddPlayerGuards ==
    \A id \in DOMAIN rooms : \A p \in Connected :
        LET r       == rooms[id]
            joined  == RoomAddPlayer(r, players, p)
            full    == GetPlayerCount(r) >= r.MaxPlayers
            member  == players[p].ID \in DOMAIN r.Players
        IN  /\ (r.GameStarted \/ full \/ member) =>
                   /\ joined.err # "ok"
                   /\ joined.Room = r
                   /\ joined.players = players
            /\ ~(r.GameStarted \/ full \/ member) =>
                   /\ joined.err = "ok"
                   /\ DOMAIN joined.Room.Players = DOMAIN r.Players \cup {players[p].ID}
                   /\ joined.Room.Players[players[p].ID] = p
                   /\ joined.Room.Board.Players = Append(r.Board.Players, p)
                   /\ joined.Room.Bots = r.Bots
            /\ (full /\ ~r.GameStarted /\ ~member) =>
                   \A gone \in DOMAIN r.Players :
                       LET removed == RoomRemovePlayer(r, players, gone)
                       IN  /\ removed.err = "ok"
                           /\ RoomAddPlayer(removed.Room, players, p).err = "ok"

\* A room of capacity 2 held its creator and a bot; the creator left and the
\* second player joined, and the creator's join is now refused as the room
\* is full.
C14_Witness ==
    \E id \in DOMAIN rooms : \E p \in Connected :
        /\ rooms[id].MaxPlayers = 2
        /\ rooms[id].Bots # EmptyMap
        /\ DOMAIN rooms[id].Players = {"b"}
        /\ players[p].ID = rooms[id].CreatedBy
        /\ RoomAddPlayer(rooms[id], players, p).err = "room is full"

\* C15: start fails and changes nothing when the room has fewer than 2
\* participants (humans plus bots) or the game is already started; on
\* success the board becomes started, the turn index is 0, and exactly one
\* tile is moved from the front of the draw pile to the current tile.
C15_StartDrawsOneTile ==
    [][ \A id \in DOMAIN rooms :
           LET r == rooms[id] IN
           /\ (GetPlayerCount(r) < 2 \/ r.GameStarted) =>
                  /\ RoomStartGame(r).err # "ok"
                  /\ RoomStartGame(r).Room = r
           /\ (id \in DOMAIN rooms' /\ ~r.GameStarted /\ rooms'[id].GameStarted) =>
                  /\ rooms'[id].Board.GameStarted
                  /\ rooms'[id].Board.CurrentPlayer = 0
                  /\ r.Board.TileDeck # <<>>
                  /\ rooms'[id].Board.CurrentTile = <<Head(r.Board.TileDeck)>>
                  /\ rooms'[id].Board.TileDeck = Tail(r.Board.TileDeck)
                  /\ rooms'[id].Board.Tiles = r.Board.Tiles ]_vars

\* The connections whose player sits in a room it did not create.
Guests ==
    { c \in Clients : /\ clients[c].RoomID \in DOMAIN rooms
                      /\ players[clients[c].Player].ID # rooms[clients[c].RoomID].CreatedBy }

\* C16: only the room's creator can add bots and start the game: an add-bot
\* or start request whose caller id differs from the room's creator id fails
\* and leaves the room's membership, bots and started flag unchanged.
C16_OnlyCreator ==
    [][ /\ \A c \in Guests, difficulty \in LobbyInputs.Difficulties :
               handleAddBot(c, difficulty) => UNCHANGED <<rooms, players>>
        /\ \A roomID \in DOMAIN rooms, playerID \in LobbyInputs.Starters :
               (playerID # rooms[roomID].CreatedBy /\ StartGame(roomID, playerID))
                   => UNCHANGED rooms ]_vars

\* A guest reads requests in a room with a free seat and two participants,
\* not started: the creator's add-bot and start would both succeed, the
\* guest's are refused.
C16_Witness ==
    \E c \in Guests :
        LET r  == rooms[clients[c].RoomID]
            id == players[clients[c].Player].ID
        IN  /\ Reading(c)
            /\ CanStart(r)
            /\ GetPlayerCount(r) < r.MaxPlayers
            /\ RoomAddBot(r, players, BotUUID(r.ID, 1), "easy", r.CreatedBy).err = "ok"
            /\ RoomAddBot(r, players, BotUUID(r.ID, 1), "easy", id).err
                   = "only room creator can add bots"
            /\ ~IsCreator(r, id)

\* C17: an add-bot request whose difficulty is not one of easy, medium,
\* hard is rejected: no bot is added to the room or to the board, so every
\* bot of every room has one of the three.
C17_DifficultyChecked ==
    \A id \in DOMAIN rooms : \A bot \in DOMAIN rooms[id].Bots :
        rooms[id].Bots[bot].Difficulty \in {"easy", "medium", "hard"}

\* The error code a JOIN_ROOM, LEAVE_ROOM, ADD_BOT, PLACE_TILE or
\* PLACE_MEEPLE of c is answered with, "" where the request is not rejected.
JoinRefusal(c, roomID) ==
    IF clients[c].Player = "nil" THEN "NOT_CONNECTED"
    ELSE IF ~RoomExists(roomID) THEN "JOIN_FAILED"
    ELSE IF RoomAddPlayer(rooms[roomID], players, clients[c].Player).err # "ok"
    THEN "JOIN_FAILED"
    ELSE ""

LeaveRefusal(c) ==
    IF clients[c].RoomID = "" THEN "NOT_IN_ROOM"
    ELSE IF LeaveRoom(rooms, players, clients[c].RoomID,
                      players[clients[c].Player].ID).err # "ok" THEN "LEAVE_FAILED"
    ELSE ""

AddBotRefusal(c, difficulty) ==
    IF clients[c].RoomID = "" THEN "NOT_IN_ROOM"
    ELSE IF ~RoomExists(clients[c].RoomID) THEN "ADD_BOT_FAILED"
    ELSE IF RoomAddBot(rooms[clients[c].RoomID], players, "bot", difficulty,
                       players[clients[c].Player].ID).err # "ok" THEN "ADD_BOT_FAILED"
    ELSE ""

PlaceTileRefusal(c, pos, rotation) ==
    IF clients[c].RoomID = "" THEN "NOT_IN_ROOM"
    ELSE IF ~RoomExists(clients[c].RoomID) THEN "ROOM_NOT_FOUND"
    ELSE IF RoomPlaceTile(rooms[clients[c].RoomID], players,
                          players[clients[c].Player].ID, pos, rotation).err
               \notin {"ok", "panic"} THEN "PLACE_TILE_FAILED"
    ELSE ""

PlaceMeepleRefusal(c, featureID, pick) ==
    IF clients[c].RoomID = "" THEN "NOT_IN_ROOM"
    ELSE IF ~RoomExists(clients[c].RoomID) THEN "ROOM_NOT_FOUND"
    ELSE IF RoomPlaceMeeple(rooms[clients[c].RoomID], players,
                            players[clients[c].Player].ID, featureID, pick).err
               \notin {"ok", "panic"} THEN "PLACE_MEEPLE_FAILED"
    ELSE ""

\* The step put one error message with that code on c's channel and nothing
\* on any other, left c registered with its channel open, and left every
\* room, board and player as it was.
ToldOnly(c, code) ==
    /\ send'.queue = [send.queue EXCEPT ![c] = Append(@, ErrorMessage(code))]
    /\ send'.closed = send.closed
    /\ ~send'.panicked
    /\ clients' = clients
    /\ rooms' = rooms
    /\ players' = players

\* C18: a request that is rejected with a recoverable error sends an error
\* message to the originating connection only, sends nothing to any other
\* connection, does not unregister the originating connection, and leaves
\* every room and board unchanged.
C18_RejectedIsLocal ==
    [][ \A c \in WireInputs.Clients :
          /\ \A roomID \in RoomIDInputs :
                 (handleJoinRoom(c, roomID) /\ JoinRefusal(c, roomID) # "")
                     => ToldOnly(c, JoinRefusal(c, roomID))
          /\ (handleLeaveRoom(c) /\ LeaveRefusal(c) # "") => ToldOnly(c, LeaveRefusal(c))
          /\ \A difficulty \in WireInputs.Difficulties :
                 (handleAddBot(c, difficulty) /\ AddBotRefusal(c, difficulty) # "")
                     => ToldOnly(c, AddBotRefusal(c, difficulty))
          /\ \A pos \in PositionsFor(c), rotation \in WireInputs.Rotations :
                 (handlePlaceTile(c, pos, rotation) /\ PlaceTileRefusal(c, pos, rotation) # "")
                     => ToldOnly(c, PlaceTileRefusal(c, pos, rotation))
          /\ \A featureID \in WireInputs.Features, pick \in PicksOf(c) :
                 (handlePlaceMeeple(c, featureID, pick)
                      /\ PlaceMeepleRefusal(c, featureID, pick) # "")
                     => ToldOnly(c, PlaceMeepleRefusal(c, featureID, pick)) ]_vars

\* The peers of the connections attached to the room have read all they
\* were sent.
AllRead(roomID) == \A d \in Attached(clients, roomID) : send.queue[d] = <<>>

\* What the step put on c's channel.
Queued(c) ==
    IF Len(send'.queue[c]) >= Len(send.queue[c])
    THEN SubSeq(send'.queue[c], Len(send.queue[c]) + 1, Len(send'.queue[c]))
    ELSE <<>>

\* C19: after a successful tile placement the game state is broadcast to
\* every connection attached to the room; after a successful marker
\* placement the turn is advanced, then the game state is broadcast, then a
\* turn-start message that names the new current player and carries the
\* newly drawn tile and its legal placements.  Stated for moves made while
\* the channels of the room's connections are empty.
C19_BroadcastAfterMove ==
    [][ \A c \in WireInputs.Clients :
          /\ \A pos \in PositionsFor(c), rotation \in WireInputs.Rotations :
                 ( /\ handlePlaceTile(c, pos, rotation)
                   /\ RoomExists(clients[c].RoomID)
                   /\ AllRead(clients[c].RoomID)
                   /\ RoomPlaceTile(rooms[clients[c].RoomID], players,
                                    players[clients[c].Player].ID, pos, rotation).err = "ok" )
                     => \A d \in Attached(clients, clients[c].RoomID) :
                            \E i \in DOMAIN Queued(d) : Queued(d)[i].Type = "GAME_STATE"
          /\ ( NextTurn(c) /\ RoomExists(pend[c]) /\ AllRead(pend[c]) /\ ~Down' ) =>
                 LET b == rooms'[pend[c]].Board IN
                 /\ b.CurrentPlayer
                        = (rooms[pend[c]].Board.CurrentPlayer + 1) % Len(b.Players)
                 /\ \A d \in Attached(clients, pend[c]) :
                        /\ Len(Queued(d)) = 2
                        /\ Queued(d)[1].Type = "GAME_STATE"
                        /\ Queued(d)[2] = TurnStartMessage(b, players) ]_vars

\* C20: in a started, not ended room whose current player is a bot and
\* whose current tile has a legal placement, one bot tick commits exactly
\* one tile placement at a legal position and rotation, places at most one
\* marker for the bot, advances the turn index by one modulo the player
\* count, draws the next tile, and broadcasts the resulting game state to
\* the room.  Stated for ticks made while the channels of the room's
\* connections are empty.
C20_BotTick ==
    [][ \A id \in DOMAIN rooms :
          LET r   == rooms[id]
              b   == r.Board
              bot == players[GetCurrentPlayer(b)].ID
          IN  /\ ( /\ pend[BotTicker] = "" /\ pend'[BotTicker] = id
                   /\ ~r.GameEnded /\ GetValidPlacements(b) # {} ) =>
                     LET laid == DOMAIN rooms'[id].Board.Tiles \ DOMAIN b.Tiles IN
                     /\ Cardinality(laid) = 1
                     /\ \A pos \in laid :
                            [Position |-> pos,
                             Rotation |-> rooms'[id].Board.Tiles[pos].Rotation]
                                \in GetValidPlacements(b)
                     /\ MarkersOnBoard(rooms'[id].Board, bot)
                            \in {MarkersOnBoard(b, bot), MarkersOnBoard(b, bot) + 1}
              /\ ( pend[BotTicker] = id /\ pend'[BotTicker] = "" /\ AllRead(id)
                   /\ ~Down' ) =>
                     /\ rooms'[id].Board.CurrentPlayer
                            = (b.CurrentPlayer + 1) % Len(b.Players)
                     /\ b.TileDeck # <<>> =>
                            rooms'[id].Board.CurrentTile = <<Head(b.TileDeck)>>
                     /\ \A d \in Attached(clients, id) :
                            \E i \in DOMAIN Queued(d) : Queued(d)[i].Type = "GAME_STATE" ]_vars

\* The feature indices PlaceMeeple is tried with: below, within and past
\* the features of a tile.
FeatureInputs == {-1, 0, 1, 2}

\* The markers on the tiles of a board, as (position, index) pairs.
MarkersOf(b) ==
    { m \in { <<pos, i>> : pos \in DOMAIN b.Tiles, i \in 1..7 } :
        m[2] <= Len(b.Tiles[m[1]].Meeples) }

\* C25: placeMarker fails, leaving the board and all marker counts
\* unchanged, if the player has zero markers remaining, if the feature index
\* is out of range for the tile's features, or if that feature index is
\* already occupied; every marker on the board references a feature index i
\* with 0 <= i < number of features of its tile; on success exactly one
\* marker is appended and exactly that player's marker count decreases by one.
C25_PlaceMeepleGuards ==
    \A id \in DOMAIN rooms :
        LET b == rooms[id].Board IN
        /\ \A m \in MarkersOf(b) :
               LET i == b.Tiles[m[1]].Meeples[m[2]].FeatureID
               IN  0 <= i /\ i < Len(b.Tiles[m[1]].Tile.Features)
        /\ \A k \in 1..Len(b.Players), featureID \in FeatureInputs, pick \in PicksFor(b) :
               LET p        == b.Players[k]
                   tile     == b.Tiles[pick]
                   res      == BoardPlaceMeeple(b, players, players[p].ID, featureID, pick)
                   owner    == GetPlayer(b, players, players[p].ID)
                   refused  == \/ players[owner].Meeples = 0
                               \/ featureID < 0
                               \/ featureID >= Len(tile.Tile.Features)
                               \/ \E i \in 1..Len(tile.Meeples) :
                                      tile.Meeples[i].FeatureID = featureID
               IN  /\ refused => /\ res.err # "ok"
                                 /\ res.Board = b
                                 /\ res.players = players
                   /\ res.err = "ok" =>
                          /\ Cardinality(MarkersOf(res.Board)) = Cardinality(MarkersOf(b)) + 1
                          /\ res.players = [players EXCEPT ![owner].Meeples = @ - 1]

\* C26: a marker can be placed only on the tile just placed: placeMarker
\* fails when the current player has not placed a tile in the current turn
\* (the drawn tile is still the current tile), and a successful placeMarker
\* puts the marker on a tile a player placed, never on the tile the board
\* was seeded with.  Stated for the current player of every running game.
C26_MarkerOnTileJustPlaced ==
    \A id \in DOMAIN rooms :
        LET r == rooms[id]
            b == r.Board
        IN  (r.GameStarted /\ ~r.GameEnded /\ CurrentTurnID(b) # "") =>
                \A featureID \in FeatureInputs, pick \in PicksFor(b) :
                    LET res == RoomPlaceMeeple(r, players, CurrentTurnID(b), featureID, pick)
                    IN  /\ b.CurrentTile # NilTile => res.err # "ok"
                        /\ res.err = "ok" => pick # <<0, 0>>

\* The connections whose player is the current player of a running game
\* and has placed the drawn tile: the tile part of the turn is done.
TilePlacedBy ==
    { c \in Clients :
        /\ Reading(c)
        /\ clients[c].RoomID \in DOMAIN rooms
        /\ LET r == rooms[clients[c].RoomID]
           IN  /\ r.GameStarted /\ ~r.GameEnded /\ ~r.Board.GameEnded
               /\ CurrentTurnID(r.Board) = players[clients[c].Player].ID
               /\ r.Board.CurrentTile = NilTile }

\* A step of the server after which the handler of c is about to advance
\* the turn of c's room, and which put no marker on the board.
EndsTurnWithoutMarker(c) ==
    /\ Next
    /\ pend'[c] = clients[c].RoomID
    /\ clients[c].RoomID \in DOMAIN rooms'
    /\ MarkersOf(rooms'[clients[c].RoomID].Board) = MarkersOf(rooms[clients[c].RoomID].Board)

\* C27: marker placement is optional: after the current human player has
\* successfully placed the tile, the turn can advance to the next player
\* without any marker being placed: some request of the player ends the
\* turn and places no marker.
C27_MarkerIsOptional ==
    \A c \in TilePlacedBy : ENABLED EndsTurnWithoutMarker(c)

\* The rooms a bot tick processes a bot's turn in while the current tile has
\* no legal placement.
BotWithoutPlacement ==
    { id \in DOMAIN rooms :
        /\ rooms[id].GameStarted
        /\ pend[BotTicker] = ""
        /\ ~GetCurrentPlayerPanics(rooms[id].Board)
        /\ IsCurrentPlayerBot(rooms[id], players)
        /\ GetValidPlacements(rooms[id].Board) = {} }

\* C30: when it is a bot's turn and the set of legal placements is empty,
\* the bot yields 'no move' rather than failing: processing the bot's turn
\* does not end in an error (the move MakeMove returns is executed without
\* one), and a tick can move the game on from that bot.
C30_BotYieldsNoMove ==
    \A id \in BotWithoutPlacement :
        /\ BoardPlaceTile(rooms[id].Board, <<0, 0>>, 0).err = "ok"
        /\ ENABLED ( /\ \E placement \in BotPlacements(rooms[id].Board, {0}) :
                            processBotMoves(id, placement, -1, <<0, 0>>)
                     /\ pend'[BotTicker] = id )

\* The room ids and turn indices of the games SpecTurnsFair plays.
TurnRooms == { RoomUUIDs[i] : i \in 1..TurnInputs.Rooms }

TurnIndices == 0..4

\* The game of the room is running, its turn index is k, and the player
\* whose turn it is is a human whose connection was closed and unregistered.
AwaitsGone(id, k) ==
    /\ id \in DOMAIN rooms
    /\ rooms[id].GameStarted /\ ~rooms[id].GameEnded /\ ~rooms[id].Board.GameEnded
    /\ rooms[id].Board.CurrentPlayer = k
    /\ k < Len(rooms[id].Board.Players)
    /\ \E c \in Clients : /\ clients[c].conn = "closed"
                          /\ clients[c].Player = rooms[id].Board.Players[k + 1]

\* C28: if the current player of a started game is a human whose connection
\* has been closed and unregistered, that player's turn is skipped: the turn
\* eventually advances to another player.
C28_GoneIsSkipped ==
    \A id \in TurnRooms, k \in TurnIndices :
        AwaitsGone(id, k) ~> (id \in DOMAIN rooms /\ rooms[id].Board.CurrentPlayer # k)

\* C24: a room is removed from the directory only when it is empty and not
\* started: at the moment a room is deleted it has zero members (humans
\* plus bots) and its game has not started, under every interleaving of
\* LeaveRoom with JoinRoom, AddBot and StartGame on the same room; and a
\* room that becomes empty and unstarted through removePlayer is removed:
\* none stays in the directory unless a LeaveRoom is about to delete it.
\* Where RemovePlayer and the delete are one step, the members are counted
\* after the RemovePlayer of that step.
C24_DeletedOnlyWhenEmpty ==
    [][ /\ \A id \in DOMAIN rooms \ DOMAIN rooms' :
               /\ ~rooms[id].GameStarted
               /\ \/ GetPlayerCount(rooms[id]) = 0
                  \/ \E c \in Clients :
                         /\ handleLeaveRoom(c) \/ Unregister(c)
                         /\ clients[c].RoomID = id
                         /\ GetPlayerCount(RoomRemovePlayer(rooms[id], players,
                                players[clients[c].Player].ID).Room) = 0
        /\ \A id \in DOMAIN rooms' :
               (GetPlayerCount(rooms'[id]) = 0 /\ ~rooms'[id].GameStarted)
                   => \E g \in Goroutines : leaving'[g] = id ]_vars

\* Goroutine g is about to send the message at the head of its list to d,
\* whose channel is open and holds SendBuffer messages.
SendsToFull(g, d) ==
    /\ send.issued[g] # <<>>
    /\ d \in Head(send.issued[g]).left
    /\ Head(send.issued[g]).room # ""
    /\ d \in Attached(clients, Head(send.issued[g]).room)
    /\ ~send.closed[d]
    /\ Len(send.queue[d]) >= SendBuffer

\* C21: delivering a message to a connection whose outbound buffer is full
\* never blocks the sender; such a connection is treated as dead and torn
\* down (its outbound channel closed and the connection removed from the
\* live set), and the message is still delivered to the other connections of
\* the room: the send to it is a step that can always be taken, it leaves
\* the channel closed and the connection out of the live set, and the loop
\* goes on with the connections it has not yet sent to.
C21_FullBufferTornDown ==
    [][ \A g \in Senders, d \in Clients :
            (SendsToFull(g, d) /\ SendNext(g, d)) =>
                /\ send'.closed[d]
                /\ clients'[d].conn # "open"
                /\ ~send'.panicked
                /\ \/ Head(send.issued[g]).left = {d}
                   \/ Head(send'.issued[g]) =
                          [Head(send.issued[g]) EXCEPT !.left = @ \ {d}] ]_vars

\* The messages broadcastToRoom sends for a room's state.
RoomBroadcasts == { "ROOM_STATE", "GAME_START", "GAME_STATE", "TURN_START" }

\* C22: for a single room, any two broadcast messages are placed in the
\* outbound queues of all connections attached to that room in the same
\* relative order, under every interleaving of the request handlers: two
\* different broadcast messages that the queues of two connections both
\* hold are held in the same order by both.
C22_SameRelativeOrder ==
    \A c, d \in Clients :
        \A i, j \in DOMAIN send.queue[c], k, l \in DOMAIN send.queue[d] :
            ( /\ i < j
              /\ send.queue[c][i].Type \in RoomBroadcasts
              /\ send.queue[c][j].Type \in RoomBroadcasts
              /\ send.queue[c][i] # send.queue[c][j]
              /\ send.queue[d][k] = send.queue[c][i]
              /\ send.queue[d][l] = send.queue[c][j] ) => k < l

\* The registered connections that have an attached player and room.
AttachedPlayers ==
    { c \in Clients : /\ clients[c].conn = "open"
                      /\ clients[c].Player # "nil"
                      /\ clients[c].RoomID \in DOMAIN rooms }

\* C23: when a registered connection that has an attached player and room
\* is unregistered, the connection is removed from the live set,
\* removePlayer is performed for that player on that room, and the updated
\* room membership is broadcast to the remaining members (the hub's loop
\* has, as the last of its messages, the state of the room as it is now,
\* for the connections still attached to it); for a room that has not
\* started, the player is no longer a member of the room or of its board
\* afterwards.
C23_UnregisterRemovesPlayer ==
    [][ \A c \in AttachedPlayers :
            Unregister(c) =>
                LET id == clients[c].RoomID
                    p  == clients[c].Player
                IN  /\ clients'[c].conn # "open"
                    /\ ~send'.panicked
                    /\ id \in DOMAIN rooms' =>
                           /\ rooms'[id] = RoomRemovePlayer(rooms[id], players,
                                                            players[p].ID).Room
                           /\ Attached(clients', id) # {} =>
                                  /\ send'.issued[HubLoop] # <<>>
                                  /\ send'.issued[HubLoop][Len(send'.issued[HubLoop])] =
                                         [msg  |-> RoomStateMessage(rooms'[id]),
                                          room |-> id,
                                          left |-> Attached(clients', id)]
                           /\ ~rooms[id].GameStarted =>
                                  /\ p \notin Members(rooms'[id])
                                  /\ \A i \in DOMAIN rooms'[id].Board.Players :
                                         rooms'[id].Board.Players[i] # p ]_vars

\* C35: a connection's outbound channel is closed at most once and is never
\* sent on after it has been closed, under every interleaving of
\* Client.SendMessage with the hub loop's unregister handling: neither a
\* double close nor a send on a closed channel, each of which panics, is
\* reachable.
C35_ChannelClosedOnce == ~send.panicked

\* C33: a newly constructed board has exactly one placed tile, at position
\* (0,0) with rotation 0, and that tile is the designated starting tile of
\* the tile set (tile ID 0); the draw pile holds tiles of the rest of the
\* set, each at most once, so the starting tile never appears in it.
C33_SeededWithStartTile ==
    [][ \A id \in DOMAIN rooms' \ DOMAIN rooms :
            LET b == rooms'[id].Board
            IN  /\ DOMAIN b.Tiles = {<<0, 0>>}
                /\ b.Tiles[<<0, 0>>].Position = <<0, 0>>
                /\ b.Tiles[<<0, 0>>].Rotation = 0
                /\ b.Tiles[<<0, 0>>].Tile = CreateStandardTileSet[0]
                /\ \A i \in DOMAIN b.TileDeck :
                       /\ b.TileDeck[i].ID # 0
                       /\ b.TileDeck[i] = CreateStandardTileSet[b.TileDeck[i].ID]
                       /\ \A j \in DOMAIN b.TileDeck :
                              b.TileDeck[i].ID = b.TileDeck[j].ID => i = j ]_vars

\* C34: every placed tile on every reachable board has a rotation in
\* {0, 90, 180, 270}: a place-tile request carrying any other rotation value
\* is rejected and places nothing.
C34_RotationsAreQuarterTurns ==
    \A id \in DOMAIN rooms :
        \A pos \in DOMAIN rooms[id].Board.Tiles :
            rooms[id].Board.Tiles[pos].Rotation \in QuarterTurns

\* C36: in every reachable state of a board with at least one player, the
\* turn index satisfies 0 <= CurrentPlayer < number of players, so
\* GetCurrentPlayer never indexes out of range, whatever join, leave,
\* add-bot, start, place-tile, place-meeple and turn-advance operations
\* came before, those issued before the game is started included.
C36_TurnIndexInRange ==
    \A id \in DOMAIN rooms :
        Len(rooms[id].Board.Players) >= 1 =>
            /\ 0 <= rooms[id].Board.CurrentPlayer
            /\ rooms[id].Board.CurrentPlayer < Len(rooms[id].Board.Players)

\* The number of tiles a board holds: placed, in the draw pile, in hand.
TilesHeld(b) == Cardinality(DOMAIN b.Tiles) + Len(b.TileDeck) + Len(b.CurrentTile)

\* C37: the turn advances only after the current player has placed the
\* drawn tile: whenever room.NextTurn() runs, the current tile has already
\* been committed to the board (no tile is in hand), so no drawn tile is
\* ever discarded and at all times (placed tiles) + (draw pile) + (current
\* tile, if any) stays the full tile set: no step changes their number.
C37_AdvanceAfterTilePlaced ==
    [][ /\ \A g \in Goroutines :
               (NextTurn(g) /\ RoomExists(pend[g]))
                   => rooms[pend[g]].Board.CurrentTile = NilTile
        /\ \A id \in DOMAIN rooms \cap DOMAIN rooms' :
               TilesHeld(rooms'[id].Board) = TilesHeld(rooms[id].Board) ]_vars

\* C38: a player is a member of at most one room at a time: after any
\* sequence of create-room and join-room requests from one connection, the
\* connection's player is in the membership of only the room named by the
\* connection's current room id.
C38_MemberOfOneRoom ==
    \A c \in Clients :
        clients[c].Player # "nil" =>
            \A id \in DOMAIN rooms :
                players[clients[c].Player].ID \in DOMAIN rooms[id].Players
                    => clients[c].RoomID = id

\* C39: in every reachable state of a room, the board's player list
\* contains exactly the room's human members and its bots, each exactly
\* once: the list length equals the number of humans plus the number of
\* bots, after any sequence of AddPlayer, AddBot and RemovePlayer; and the
\* error of Board.AddPlayer, which the room ignores, is never non-nil when
\* the room's own checks pass (the room not started and not full).
C39_BoardListsMembers ==
    \A id \in DOMAIN rooms :
        LET r == rooms[id]
            b == rooms[id].Board
        IN  /\ Len(b.Players) = Cardinality(DOMAIN r.Players) + Cardinality(DOMAIN r.Bots)
            /\ { b.Players[i] : i \in DOMAIN b.Players } = Members(r)
            /\ \A i, j \in DOMAIN b.Players : b.Players[i] = b.Players[j] => i = j
            /\ (~r.GameStarted /\ GetPlayerCount(r) < r.MaxPlayers)
                   => (Len(b.Players) < 5 /\ ~b.GameStarted)

\* The game of room id is started; it has ended, for the room and its board.
Started(id) == id \in DOMAIN rooms /\ rooms[id].GameStarted

Ended(id) == id \in DOMAIN rooms /\ rooms[id].GameEnded /\ rooms[id].Board.GameEnded

\* The room ids and turn indices of the games SpecEndFair plays.
EndRooms == { RoomUUIDs[i] : i \in 1..EndInputs.Rooms }

EndIndices == 0..1

\* The running game of room id has the turn index k.
TurnOf(id, k) == Started(id) /\ ~Ended(id) /\ rooms[id].Board.CurrentPlayer = k

\* Every turn of the game of room id is eventually completed: no turn index
\* stays that of the running game for ever (the game ends or the index
\* moves on, again and again).
TurnsCompleted(id) == \A k \in EndIndices : []<>~TurnOf(id, k)

\* C40: in a started game the draw pile never grows, and every turn advance
\* either removes exactly one tile from the front of the pile, making it
\* the current tile, or, when the pile is empty, sets Ended (so that a
\* started game is Ended after at most pile size + 1 advances); and under
\* fairness of the bot tick a game in which every turn is eventually
\* completed eventually reaches Ended.
C40_PileRunsOut ==
    /\ [][ \A id \in DOMAIN rooms \cap DOMAIN rooms' :
               rooms[id].GameStarted =>
                   LET b == rooms[id].Board
                       n == rooms'[id].Board
                   IN  /\ Len(n.TileDeck) <= Len(b.TileDeck)
                       /\ (\E g \in Goroutines : NextTurn(g) /\ pend[g] = id) =>
                              IF b.TileDeck # <<>>
                              THEN /\ n.TileDeck = Tail(b.TileDeck)
                                   /\ n.CurrentTile = <<Head(b.TileDeck)>>
                                   /\ n.GameEnded = b.GameEnded
                              ELSE /\ n.TileDeck = <<>>
                                   /\ n.GameEnded /\ rooms'[id].GameEnded ]_vars
    /\ \A id \in EndRooms : TurnsCompleted(id) => (Started(id) ~> Ended(id))

\* A game that was played to its end: the tiles of the pile are on the
\* board, the last turn advance found the pile empty.
C40_Witness ==
    \E id \in DOMAIN rooms :
        /\ Started(id) /\ Ended(id)
        /\ rooms[id].Board.TileDeck = <<>>
        /\ rooms[id].Board.CurrentTile = NilTile
        /\ Cardinality(DOMAIN rooms[id].Board.Tiles) = EndInputs.Pile + 1

\* The connections h.clients holds.
Registered == { c \in Clients : clients[c].conn = "open" }

\* Goroutine g, not the hub's loop, is inside the range over h.clients of a
\* broadcastToRoom it has begun and not finished.
Ranging(g) ==
    /\ g # HubLoop
    /\ send.issued[g] # <<>>
    /\ Head(send.issued[g]).room # ""

\* C31: there is no race on the hub's connection set: the set is mutated
\* only by the hub's own loop, and no other task (a connection's request
\* handler or the bot-tick task) reads or iterates the set while the hub
\* loop may be adding or deleting a connection: no step of the hub's loop
\* that adds a connection to the set or deletes one from it is taken while
\* another goroutine is inside its range over the set.
C31_NoRaceOnConnectionSet ==
    [][ Registered' # Registered => \A g \in Senders : ~Ranging(g) ]_vars

\* Goroutine t holds the mutex mu, for reading or for writing.
Holds(t, mu) == \E h \in pure.held : h[1] = t /\ h[2] = mu

\* C32: no task ever holds the room directory's lock and a room's lock at
\* the same time: every directory operation (create, get, list,
\* list-active, cleanup, counts) releases the directory lock before any
\* room lock is taken, and the bot tick never holds the directory lock
\* across a board mutation.
C32_NoDirectoryAndRoomLock ==
    \A t \in LockTasks :
        /\ \A r \in LockRooms : ~(Holds(t, "m") /\ Holds(t, r))
        /\ (pure.pc[t] # <<>> /\ Head(pure.pc[t]).do = "mutate") => ~Holds(t, "m")

====
